---- MODULE Spec2Model ----
(***************************************************************************)
(* A model of the CodeMind orchestration core: RetryHandler.execute,       *)
(* UnifiedOrchestrator.process_query / run_sandbox / _update_history /     *)
(* get_history, the SecureSandbox scoped object, the two RateLimiter        *)
(* classes (gemini_integration.rate_limiter, claude_integration) and the   *)
(* stage methods GeminiReasoner.get_reasoning and                          *)
(* ClaudeSynthesizer.generate_code.                                        *)
(***************************************************************************)
EXTENDS Integers, Sequences, FiniteSets, TLC

\* ------------------------------------------------------------------ bounds

\* RetryConfig.max_retries ranges over 0..MaxRetries
MaxRetries == 2
\* process_query is called at most MaxQueries times on one orchestrator
MaxQueries == 2
\* OrchestratorConfig.max_history_size ranges over 0..MaxHistorySize
MaxHistorySize == 2
\* _update_history is called at most MaxUpdates times on one orchestrator
MaxUpdates == 4
\* SandboxConfig.dependencies lists at most MaxDeps packages
MaxDeps == 2
\* run_sandbox is called at most MaxSandboxRuns times on one orchestrator
MaxSandboxRuns == 2
\* RateLimiter.burst_limit ranges over 0..MaxBurst
MaxBurst == 2
\* the monotonic clock runs from 0 to MaxTime ticks
MaxTime == 4
\* at most MaxCalls calls are made on one RateLimiter
MaxCalls == 3
\* the tasks sharing one RateLimiter are 1..NumTasks
NumTasks == 2
\* a client's stage methods are invoked at most MaxInvocations times
MaxInvocations == 2
\* a raw text handed to a normalizer holds at most MaxSections sections
MaxSections == 2
\* each with at most MaxItems items
MaxItems == 1
\* RetryConfig.base_delay and max_delay range over 0..MaxDelay seconds
MaxDelay == 3

\* ------------------------------------------------------- exception classes

\* Direct base class of every exception class the model raises or catches.
\* "et." classes are mvp_orchestrator/error_types.py, "orch." classes are the
\* ones enhanced_orchestrator.py defines again under the same names.
Parent(c) ==
    CASE c = "et.CodeMindError"        -> "Exception"
      [] c = "et.OrchestrationError"   -> "et.CodeMindError"
      [] c = "et.ReasoningError"       -> "et.OrchestrationError"
      [] c = "et.SynthesisError"       -> "et.OrchestrationError"
      [] c = "et.ValidationError"      -> "et.CodeMindError"
      [] c = "et.ConfigurationError"   -> "et.CodeMindError"
      [] c = "et.APIError"             -> "et.CodeMindError"
      [] c = "et.GeminiAPIError"       -> "et.APIError"
      [] c = "et.ClaudeAPIError"       -> "et.APIError"
      [] c = "et.RateLimitError"       -> "et.APIError"
      [] c = "et.SandboxError"         -> "et.CodeMindError"
      [] c = "orch.OrchestrationError" -> "Exception"
      [] c = "orch.ReasoningError"     -> "orch.OrchestrationError"
      [] c = "orch.SynthesisError"     -> "orch.OrchestrationError"
      [] c = "RetryExhaustedError"     -> "Exception"
      [] c = "aiohttp.ClientError"     -> "Exception"
      [] c = "OSError"                 -> "Exception"
      [] c = "ConnectionError"         -> "OSError"
      [] c = "TimeoutError"            -> "OSError"
      [] c = "KeyError"                -> "Exception"
      [] c = "AttributeError"          -> "Exception"
      [] c = "ValueError"              -> "Exception"
      [] OTHER                         -> "BaseException"

RECURSIVE IsSubclass(_, _)
IsSubclass(c, base) ==
    IF c = base THEN TRUE
    ELSE IF c = "BaseException" THEN FALSE
    ELSE IsSubclass(Parent(c), base)

\* type(e).__name__
ClassName(s) ==
    CASE s = "et.ReasoningError"     -> "ReasoningError"
      [] s = "et.SynthesisError"     -> "SynthesisError"
      [] s = "et.ValidationError"    -> "ValidationError"
      [] s = "et.GeminiAPIError"     -> "GeminiAPIError"
      [] s = "et.ClaudeAPIError"     -> "ClaudeAPIError"
      [] s = "et.RateLimitError"     -> "RateLimitError"
      [] s = "et.SandboxError"       -> "SandboxError"
      [] s = "orch.ReasoningError"   -> "ReasoningError"
      [] s = "orch.SynthesisError"   -> "SynthesisError"
      [] s = "aiohttp.ClientError"   -> "ClientError"
      [] OTHER                       -> s

\* A dict is a set of <<key, value>> pairs; NoneDict stands for None.
NoneDict == [isNone |-> TRUE, items |-> {}]
Dict(items) == [isNone |-> FALSE, items |-> items]

\* CodeMindError.__init__: self.details = details or {}
CodeMindDetails(details) ==
    IF details.isNone \/ details.items = {} THEN Dict({}) ELSE details

HasDetailsAttr(c) == IsSubclass(c, "et.CodeMindError") \/ c = "RetryExhaustedError"

NoRetryAfter == 0

\* An exception object raised by an operation at its n-th invocation (n = at).
\* message stands for str(e): the text of that raise, one per invocation.
Text(prefix, c, n) == [prefix |-> prefix, of |-> <<c, n>>]

NoExc == [class |-> "NoneType", at |-> 0, message |-> Text("None", "", 0),
          details |-> NoneDict, retry_after |-> NoRetryAfter]

MkExc(c, n, details, ra) ==
    [class |-> c, at |-> n, message |-> Text("", c, n),
     details |-> IF IsSubclass(c, "et.CodeMindError")
                 THEN CodeMindDetails(details) ELSE NoneDict,
     retry_after |-> ra]

\* getattr(e, 'details', None)
GetDetails(e) == IF HasDetailsAttr(e.class) THEN e.details ELSE NoneDict

\* The exceptions an operation may raise at invocation n. The clients raise
\* RateLimitError with retry_after and no details; a caller may pass details.
RateLimitErrors(n) ==
    { MkExc("et.RateLimitError", n, NoneDict, 2),
      MkExc("et.RateLimitError", n, Dict({<<"status", 429>>}), 5) }

RaisedAt(n) ==
    RateLimitErrors(n) \cup
    { MkExc(c, n, NoneDict, NoRetryAfter) :
        c \in {"aiohttp.ClientError", "TimeoutError",
               "et.ReasoningError", "et.SynthesisError",
               "et.ValidationError", "et.SandboxError", "et.GeminiAPIError",
               "et.ClaudeAPIError", "orch.ReasoningError"} }

\* The values an operation may return: a dict holding every key the
\* orchestrator reads, a dict without them, and a non-dict.
OpValues == {"dict_full", "dict_empty", "not_dict"}

\* The operations execute is handed: the two stage methods, an arbitrary
\* operation, and one whose only failure is a timeout.
RaisedBy(op, n) ==
    IF op = "timing_out" THEN {MkExc("TimeoutError", n, NoneDict, NoRetryAfter)}
    ELSE RaisedAt(n)
ReturnedBy(op) == IF op = "timing_out" THEN {"dict_full"} ELSE OpValues

\* ------------------------------------------------------------------- state

VARIABLES
    max_retries,      \* RetryConfig.max_retries
    base_delay,       \* RetryConfig.base_delay, in seconds
    max_delay,        \* RetryConfig.max_delay, in seconds
    jitter_factor,    \* RetryConfig.jitter_factor, in units of 1/JitterDen
    exponential_base, \* RetryConfig.exponential_base
    operation,        \* the operation execute was handed
    ex_pc,            \* position inside RetryHandler.execute
    attempt,          \* loop variable of execute
    last_error,       \* local last_error of execute
    ex_out,           \* how execute ended: the value returned or exception raised
    op_log,           \* outcomes of the operation's invocations in this execute
    sleeps,           \* the asyncio.sleep calls of this execute, in order
    pq_pc,            \* position inside process_query
    query,            \* argument of the running process_query
    reasoning_output, \* local reasoning_output of process_query
    reasoning_end,    \* how the reasoning stage's execute ended in this query
    calls,            \* invocations of each stage's client method in this query
    pq_out,           \* how process_query ended
    completed,        \* queries of the process_query calls that have ended
    max_history_size, \* OrchestratorConfig.max_history_size
    history,          \* UnifiedOrchestrator.history
    appended,         \* every entry _update_history has appended, in order
    got,              \* what the last get_history call returned
    sb_pc,            \* position inside run_sandbox
    code,             \* argument of the running run_sandbox
    dependencies,     \* SandboxConfig.dependencies
    sandbox,          \* SecureSandbox._sandbox of the scoped object in use
    pending,          \* packages of the install loop not yet installed
    remote,           \* calls made on the remote sandbox service in this run
    execution_result, \* what SecureSandbox.execute_code returned
    ec_out,           \* how the last SecureSandbox.execute_code call ended
    qe_out,           \* how SecureSandbox.quick_execute ended
    rs_out,           \* how run_sandbox ended
    sandbox_runs,     \* outcomes of the run_sandbox calls that have ended
    lim_kind,         \* which RateLimiter class: "gemini" or "claude"
    rate,             \* RateLimiter.rate
    burst_limit,      \* RateLimiter.burst_limit
    tokens,           \* RateLimiter.tokens
    last_update,      \* RateLimiter.last_update
    now,              \* time.monotonic()
    lock,             \* RateLimiter.lock: the task holding it, 0 when free
    waiters,          \* the tasks waiting for RateLimiter.lock, first come first
    running,          \* the task the event loop is running, 0 when none
    t_pc,             \* position of each task inside its limiter call
    t_call,           \* index in lim_log of each task's current call
    t_wake,           \* instant each sleeping task's asyncio.sleep ends
    t_nested,         \* the task is inside acquire's own get_retry_after call
    lim_log,          \* the calls made on the limiter, in the order issued
    stream_response,  \* ClaudeConfig.stream_response
    cl_pc,            \* position inside the running stage method
    cl_stage,         \* the stage method that is running
    cl_query,         \* its query argument
    cl_admitted,      \* rate_limiter.acquire() returned True in this invocation
    attempt_number,   \* tenacity's count of runs of generate_code's body
    cl_outbound,      \* outbound calls to the remote service in this invocation
    cl_out,           \* how the stage method ended
    cl_done,          \* the invocations that have ended
    nz_kind,          \* which normalizer: "gemini" or "claude"
    xml_content,      \* argument of validate_and_process
    allow_recovery,   \* argument of GeminiXMLProcessor.validate_and_process
    nz_out            \* how validate_and_process ended

retryConfig == <<base_delay, max_delay, jitter_factor, exponential_base>>
retryVars == <<max_retries, retryConfig, operation, ex_pc, attempt, last_error,
               ex_out, op_log, sleeps>>
queryVars == <<pq_pc, query, reasoning_output, reasoning_end, calls, pq_out,
               completed>>
historyVars == <<max_history_size, history, appended, got>>
sandboxVars == <<sb_pc, code, dependencies, sandbox, pending, remote,
                 execution_result, ec_out, qe_out, rs_out, sandbox_runs>>

limiterVars == <<lim_kind, rate, burst_limit, tokens, last_update, now, lock,
                 waiters, running, t_pc, t_call, t_wake, t_nested, lim_log>>

clientVars == <<stream_response, cl_pc, cl_stage, cl_query, cl_admitted,
                attempt_number, cl_outbound, cl_out, cl_done>>

normalizerVars == <<nz_kind, xml_content, allow_recovery, nz_out>>

vars == <<retryVars, queryVars, historyVars, sandboxVars, limiterVars, clientVars,
          normalizerVars>>

\* What the steps of one component leave alone.
outsidePipeline == <<historyVars, sandboxVars, limiterVars, clientVars,
                     normalizerVars>>
outsideHistory == <<retryVars, queryVars, sandboxVars, limiterVars, clientVars,
                    normalizerVars>>
outsideSandbox == <<retryVars, queryVars, historyVars, limiterVars, clientVars,
                    normalizerVars>>
outsideLimiter == <<retryVars, queryVars, historyVars, sandboxVars, clientVars,
                    normalizerVars>>
outsideClient == <<retryVars, queryVars, historyVars, sandboxVars, limiterVars,
                   normalizerVars>>
outsideNormalizer == <<retryVars, queryVars, historyVars, sandboxVars,
                       limiterVars, clientVars>>

\* ---------------------------------------------------------- RetryHandler

\* Mutant: the retrying except clause catches every Exception.
RetryableClassesAll ==
    {"aiohttp.ClientError", "TimeoutError", "ConnectionError", "OSError",
     "et.RateLimitError", "et.ReasoningError", "et.SynthesisError", "Exception"}

\* The tuple of the except clause of execute.
RetryableClasses ==
    {"aiohttp.ClientError", "TimeoutError", "ConnectionError", "OSError",
     "et.RateLimitError", "et.ReasoningError", "et.SynthesisError"}

IsRetryable(e) == \E b \in RetryableClasses : IsSubclass(e.class, b)

\* for attempt in range(self.config.max_retries + 1)
InRange(a, m) == a < m + 1

\* Mutant: gives up one attempt early.
IsLastAttemptEarly(a, m) == a + 1 >= m

\* if attempt == self.config.max_retries
IsLastAttempt(a, m) == a = m

\* if attempt > 0: ... await asyncio.sleep(delay)
NeedsSleep(a) == a > 0

\* Delays are kept exact: the configured delays are whole seconds, the
\* jitter factor is a multiple of 1/JitterDen, and the jitter and the delay
\* handed to asyncio.sleep are in units of 1/JitterDen seconds.
JitterDen == 2

Min(a, b) == IF a <= b THEN a ELSE b

\* RetryConfig.validate: the configurations a RetryHandler accepts.
Validate(c) ==
    /\ ~(c.max_retries < 0)
    /\ ~(c.base_delay <= 0)
    /\ ~(c.max_delay < c.base_delay)
    /\ (0 <= c.jitter_factor /\ c.jitter_factor <= JitterDen)
    /\ ~(c.exponential_base <= 1)

\* exponential_base ** attempt
RECURSIVE Pow(_, _)
Pow(b, n) == IF n = 0 THEN 1 ELSE b * Pow(b, n - 1)

\* delay = min(base_delay * (exponential_base ** attempt), max_delay)
BackoffDelay(a) == Min(base_delay * Pow(exponential_base, a), max_delay)

\* random.uniform(-delay * jitter_factor, delay * jitter_factor)
Jitters(delay) == (0 - delay * jitter_factor) .. (delay * jitter_factor)

\* delay = max(0, delay + jitter)
Jittered(delay, jitter) ==
    IF delay * JitterDen + jitter > 0 THEN delay * JitterDen + jitter ELSE 0

\* Mutant: hands the loop variable to _calculate_delay unadjusted.
DelayAttemptUnadjusted(a) == a

\* delay = self._calculate_delay(attempt - 1)
DelayAttempt(a) == a - 1

\* One asyncio.sleep call: the attempt it precedes, the delay before the
\* jitter and the delay slept.
Sleep(a, delay, jitter) ==
    [attempt |-> a, delay |-> delay, slept |-> Jittered(delay, jitter)]

\* Mutant: reports the zero-based loop variable as the attempt count.
MkRetryExhaustedZeroBased(e, a) ==
    [class |-> "RetryExhaustedError", last_error |-> e, attempt_count |-> a]

\* RetryExhaustedError(..., last_error=e, attempt_count=attempt + 1)
MkRetryExhausted(e, a) ==
    [class |-> "RetryExhaustedError", last_error |-> e, attempt_count |-> a + 1]

\* How a call ends. wrapped: the exception raised is a RetryExhaustedError
\* whose last_error is exc and whose attempt_count is attempt_count.
Returned(v) == [kind |-> "return", value |-> v, exc |-> NoExc, wrapped |-> FALSE,
                attempt_count |-> 0]
Raised(e) == [kind |-> "raise", value |-> "None", exc |-> e, wrapped |-> FALSE,
              attempt_count |-> 0]
RaisedExhausted(w) == [kind |-> "raise", value |-> "None", exc |-> w.last_error,
                       wrapped |-> TRUE, attempt_count |-> w.attempt_count]
NoOutcome == [kind |-> "none", value |-> "None", exc |-> NoExc, wrapped |-> FALSE,
              attempt_count |-> 0]

Stages == {"get_reasoning", "generate_code"}
NoCalls == [s \in Stages |-> 0]
Invoke(op) == IF op \in Stages THEN [calls EXCEPT ![op] = @ + 1] ELSE calls

\* The head of a loop iteration: leave the loop, sleep, or call.
LoopHead(a, m) ==
    IF ~InRange(a, m) THEN "fell_through"
    ELSE IF NeedsSleep(a) THEN "sleep" ELSE "call"

\* execute(op) is entered: the locals, then the head of the first iteration.
ExecBegin(op) ==
    /\ operation' = op
    /\ attempt' = 0
    /\ last_error' = NoExc
    /\ op_log' = <<>>
    /\ sleeps' = <<>>
    /\ ex_pc' = IF LoopHead(0, max_retries) = "fell_through"
                THEN "returned" ELSE LoopHead(0, max_retries)
    /\ ex_out' = IF LoopHead(0, max_retries) = "fell_through"
                 THEN Returned("None") ELSE NoOutcome
    /\ UNCHANGED <<max_retries, retryConfig>>

\* The backoff sleep at the head of a loop iteration.
ExecSleep ==
    /\ ex_pc = "sleep"
    /\ \E jitter \in Jitters(BackoffDelay(DelayAttempt(attempt))) :
           sleeps' = Append(sleeps, Sleep(attempt,
                                          BackoffDelay(DelayAttempt(attempt)),
                                          jitter))
    /\ ex_pc' = "call"
    /\ UNCHANGED <<max_retries, retryConfig, operation, attempt, last_error,
                   ex_out, op_log>>
    /\ UNCHANGED <<queryVars, outsidePipeline>>

\* result = await operation(...); return result
ExecReturn(v) ==
    /\ op_log' = Append(op_log, Returned(v))
    /\ ex_out' = Returned(v)
    /\ ex_pc' = "returned"
    /\ UNCHANGED <<attempt, last_error>>

\* The operation raised e: the two except clauses of execute.
ExecRaise(e) ==
    /\ op_log' = Append(op_log, Raised(e))
    /\ IF IsRetryable(e)
       THEN /\ last_error' = e
            /\ IF IsLastAttempt(attempt, max_retries)
               THEN /\ ex_out' = RaisedExhausted(MkRetryExhausted(e, attempt))
                    /\ ex_pc' = "raised"
                    /\ UNCHANGED attempt
               ELSE /\ attempt' = attempt + 1
                    /\ ex_pc' = IF LoopHead(attempt + 1, max_retries) = "fell_through"
                                THEN "returned" ELSE LoopHead(attempt + 1, max_retries)
                    /\ ex_out' = IF LoopHead(attempt + 1, max_retries) = "fell_through"
                                 THEN Returned("None") ELSE ex_out
       ELSE /\ ex_out' = Raised(e)
            /\ ex_pc' = "raised"
            /\ UNCHANGED <<attempt, last_error>>

\* One invocation of the operation and the handling of its outcome.
ExecAttempt ==
    /\ ex_pc = "call"
    /\ calls' = Invoke(operation)
    /\ \/ \E v \in ReturnedBy(operation) : ExecReturn(v)
       \/ \E e \in RaisedBy(operation, Len(op_log) + 1) : ExecRaise(e)
    /\ UNCHANGED <<max_retries, retryConfig, operation, sleeps>>
    /\ UNCHANGED <<pq_pc, query, reasoning_output, reasoning_end, pq_out, completed>>
    /\ UNCHANGED outsidePipeline

\* A caller awaits retry_handler.execute(operation) on an operation of its own.
ExecStart ==
    /\ ex_pc = "idle"
    /\ pq_pc = "idle"
    /\ ExecBegin("operation")
    /\ UNCHANGED <<queryVars, outsidePipeline>>

\* A caller awaits retry_handler.execute on an operation that times out.
ExecStartTimingOut ==
    /\ ex_pc = "idle"
    /\ pq_pc = "idle"
    /\ ExecBegin("timing_out")
    /\ UNCHANGED <<queryVars, outsidePipeline>>

\* ------------------------------------------------- OrchestrationResult

NoError == [type |-> "None", message |-> Text("None", "", 0), details |-> NoneDict]

\* OrchestrationResult.success_result
success_result(code_completion, reasoning, synthesis) ==
    [success |-> TRUE, code |-> code_completion, reasoning |-> reasoning,
     synthesis |-> synthesis, error |-> NoError]

\* Mutant: a failure that keeps a code field.
error_result_with_code(error_type, error_message, error_details) ==
    [success |-> FALSE, code |-> "code_completion", reasoning |-> "None",
     synthesis |-> "None",
     error |-> [type |-> error_type, message |-> error_message,
                details |-> error_details]]

\* OrchestrationResult.error_result
error_result(error_type, error_message, error_details) ==
    [success |-> FALSE, code |-> "None", reasoning |-> "None", synthesis |-> "None",
     error |-> [type |-> error_type, message |-> error_message,
                details |-> error_details]]

NoResult == [success |-> FALSE, code |-> "None", reasoning |-> "None",
             synthesis |-> "None", error |-> NoError]

\* How process_query ends: it returns a result or lets an exception out.
PqReturn(r) == [kind |-> "return", result |-> r, exc |-> NoExc]
PqRaise(e) == [kind |-> "raise", result |-> NoResult, exc |-> e]
PqNone == [kind |-> "none", result |-> NoResult, exc |-> NoExc]

\* ------------------------------------------------------- process_query

\* Query texts: sequences of characters, " " the whitespace character.
Queries == {<<>>, <<" ">>, <<" ", "a">>}

RECURSIVE LStrip(_)
LStrip(s) == IF s # <<>> /\ Head(s) = " " THEN LStrip(Tail(s)) ELSE s

RECURSIVE RStrip(_)
RStrip(s) ==
    IF s # <<>> /\ s[Len(s)] = " " THEN RStrip(SubSeq(s, 1, Len(s) - 1)) ELSE s

\* str.strip()
Strip(s) == RStrip(LStrip(s))

\* Mutant: only the empty text counts as blank.
IsBlankNoStrip(q) == q = <<>>

\* if not query or not query.strip()
IsBlank(q) == q = <<>> \/ Strip(q) = <<>>

\* The except clause for the business exceptions: the names ReasoningError and
\* SynthesisError are the module's own classes there.
BusinessClasses ==
    {"et.RateLimitError", "orch.ReasoningError", "orch.SynthesisError",
     "et.ValidationError", "et.SandboxError"}

\* Mutant: reports the wrapper instead of the error it wraps.
OnRetryExhaustedWrapper(original_error) ==
    PqReturn(error_result("RetryExhaustedError",
                          Text("Operation failed after attempts", "", 0),
                          Dict({<<"last_error", original_error.at>>})))

\* except RetryExhaustedError as e
OnRetryExhausted(original_error) ==
    PqReturn(error_result(ClassName(original_error.class), original_error.message,
                          GetDetails(original_error)))

\* except (RateLimitError, ReasoningError, SynthesisError, ValidationError, SandboxError)
OnBusiness(e) ==
    PqReturn(error_result(ClassName(e.class), e.message, GetDetails(e)))

\* Mutant: the outermost clause lets the exception out.
OnUnexpectedReraise(e) == PqRaise(e)

\* except Exception as e
OnUnexpected(e) ==
    PqReturn(error_result("UnexpectedError",
                          [prefix |-> "An unexpected error occurred: ",
                           of |-> e.message.of],
                          NoneDict))

\* The except clauses of process_query, in order, on an exception that left
\* the try block.
HandleException(out) ==
    IF out.wrapped THEN OnRetryExhausted(out.exc)
    ELSE IF \E b \in BusinessClasses : IsSubclass(out.exc.class, b)
         THEN OnBusiness(out.exc)
    ELSE IF IsSubclass(out.exc.class, "Exception") THEN OnUnexpected(out.exc)
    ELSE PqRaise(out.exc)

\* reasoning_output.get(...), synthesis_output.get(...): only a dict has .get
GetFails(v) == v = "not_dict"
\* synthesis_output['code_completion']
SubscriptFails(v) == v # "dict_full"

ProcessQuery(q) ==
    /\ pq_pc = "idle"
    /\ ex_pc = "idle"
    /\ Len(completed) < MaxQueries
    /\ query' = q
    /\ reasoning_output' = "None"
    /\ reasoning_end' = NoOutcome
    /\ calls' = NoCalls
    /\ IF IsBlank(q)
       THEN /\ pq_out' = PqReturn(error_result("ValidationError",
                                   Text("Query cannot be empty", "", 0),
                                   Dict({<<"query", q>>})))
            /\ pq_pc' = "done"
            /\ UNCHANGED retryVars
       ELSE /\ pq_out' = PqNone
            /\ pq_pc' = "reasoning"
            /\ ExecBegin("get_reasoning")
    /\ UNCHANGED <<completed, outsidePipeline>>

\* The reasoning stage's execute returned: the log_performance line reads the
\* output, then the synthesis stage's execute is entered.
ReasoningReturned ==
    /\ pq_pc = "reasoning"
    /\ ex_pc = "returned"
    /\ reasoning_output' = ex_out.value
    /\ reasoning_end' = ex_out
    /\ IF GetFails(ex_out.value)
       THEN /\ pq_out' = HandleException(Raised(MkExc("AttributeError", 0, NoneDict,
                                                      NoRetryAfter)))
            /\ pq_pc' = "done"
            /\ UNCHANGED retryVars
       ELSE /\ pq_pc' = "synthesis"
            /\ ExecBegin("generate_code")
            /\ UNCHANGED pq_out
    /\ UNCHANGED <<query, calls, completed, outsidePipeline>>

\* Mutant: a failed reasoning stage is swallowed and synthesis goes ahead.
StageRaisedSwallowed ==
    /\ pq_pc \in {"reasoning", "synthesis"}
    /\ ex_pc = "raised"
    /\ reasoning_end' = IF pq_pc = "reasoning" THEN ex_out ELSE reasoning_end
    /\ IF pq_pc = "reasoning"
       THEN /\ pq_pc' = "synthesis"
            /\ ExecBegin("generate_code")
            /\ UNCHANGED pq_out
       ELSE /\ pq_out' = HandleException(ex_out)
            /\ pq_pc' = "done"
            /\ UNCHANGED retryVars
    /\ UNCHANGED <<query, reasoning_output, calls, completed>>
    /\ UNCHANGED outsidePipeline

\* An execute of either stage raised: the except clauses of process_query.
StageRaised ==
    /\ pq_pc \in {"reasoning", "synthesis"}
    /\ ex_pc = "raised"
    /\ pq_out' = HandleException(ex_out)
    /\ reasoning_end' = IF pq_pc = "reasoning" THEN ex_out ELSE reasoning_end
    /\ pq_pc' = "done"
    /\ UNCHANGED <<query, reasoning_output, calls, completed>>
    /\ UNCHANGED <<retryVars, outsidePipeline>>

\* The synthesis stage's execute returned: the success result is built.
SynthesisReturned ==
    /\ pq_pc = "synthesis"
    /\ ex_pc = "returned"
    /\ pq_out' =
         IF GetFails(ex_out.value)
         THEN HandleException(Raised(MkExc("AttributeError", 0, NoneDict, NoRetryAfter)))
         ELSE IF SubscriptFails(ex_out.value)
         THEN HandleException(Raised(MkExc("KeyError", 0, NoneDict, NoRetryAfter)))
         ELSE PqReturn(success_result("code_completion", "ReasoningOutput",
                                      "SynthesisOutput"))
    /\ pq_pc' = "done"
    /\ UNCHANGED <<query, reasoning_output, reasoning_end, calls, completed>>
    /\ UNCHANGED <<retryVars, outsidePipeline>>

\* process_query hands its outcome to the caller; its locals and those of the
\* executes it awaited are gone.
QueryEnds ==
    /\ pq_pc = "done"
    /\ pq_pc' = "idle"
    /\ completed' = Append(completed, query)
    /\ query' = <<>>
    /\ reasoning_output' = "None"
    /\ reasoning_end' = NoOutcome
    /\ calls' = NoCalls
    /\ pq_out' = PqNone
    /\ operation' = "None"
    /\ ex_pc' = "idle"
    /\ attempt' = 0
    /\ last_error' = NoExc
    /\ ex_out' = NoOutcome
    /\ op_log' = <<>>
    /\ sleeps' = <<>>
    /\ UNCHANGED <<max_retries, retryConfig>>
    /\ UNCHANGED outsidePipeline

\* ------------------------------------------------------------- history

\* A HistoryEntry; seq stands for its timestamp, one per append.
HistoryEntry(q, success, n) == [query |-> q, success |-> success, seq |-> n]

\* Mutant: keeps the oldest n entries, h[:n].
PySliceFirst(h, n) ==
    IF n >= Len(h) THEN h ELSE SubSeq(h, 1, n)

\* h[-n:]
PySliceLast(h, n) ==
    IF n = 0 \/ n >= Len(h) THEN h ELSE SubSeq(h, Len(h) - n + 1, Len(h))

\* An Optional[int] argument.
NoneInt == [isNone |-> TRUE, n |-> 0]
SomeInt(n) == [isNone |-> FALSE, n |-> n]

\* The body of _update_history: append, then keep the size limit.
Updated(h, entry, limit) ==
    IF Len(Append(h, entry)) > limit
    THEN PySliceLast(Append(h, entry), limit)
    ELSE Append(h, entry)

\* get_history(limit, success_only)
GetHistory(h, limit, success_only) ==
    LET entries == IF success_only THEN SelectSeq(h, LAMBDA e : e.success) ELSE h
    IN  IF ~limit.isNone /\ limit.n # 0 THEN PySliceLast(entries, limit.n)
        ELSE entries

UpdateHistory(q, success) ==
    /\ Len(appended) < MaxUpdates
    /\ history' = Updated(history, HistoryEntry(q, success, Len(appended) + 1),
                          max_history_size)
    /\ appended' = Append(appended, HistoryEntry(q, success, Len(appended) + 1))
    /\ UNCHANGED <<max_history_size, got>>
    /\ UNCHANGED outsideHistory

GetHistoryCall(limit, success_only) ==
    /\ got' = GetHistory(history, limit, success_only)
    /\ UNCHANGED <<max_history_size, history, appended>>
    /\ UNCHANGED outsideHistory

\* ------------------------------------------------------------- sandbox

\* Code texts, like query texts.
Codes == {<<>>, <<" ">>, <<" ", "p">>}

\* SandboxConfig.dependencies: None or a list of packages (package i is i).
NoneList == [isNone |-> TRUE, list |-> <<>>]
DependencyChoices ==
    {NoneList} \cup { [isNone |-> FALSE, list |-> [i \in 1..n |-> i]] : n \in 0..MaxDeps }

\* What the remote service may raise.
ServiceErrors == {"TimeoutError", "ValueError"}

RemoteCall(op, arg, ok) == [op |-> op, arg |-> arg, ok |-> ok]

SbReturn(r) == [kind |-> "return", result |-> r, class |-> "None"]
SbRaise(c) == [kind |-> "raise",
               result |-> [success |-> FALSE, output |-> "None", error |-> "None"],
               class |-> c]
SbNone == [kind |-> "none",
           result |-> [success |-> FALSE, output |-> "None", error |-> "None"],
           class |-> "None"]

NoExecution == [success |-> FALSE, output |-> "None", error |-> "None", exit_code |-> 0]

\* How execute_code ends: it returns a result or raises.
EcReturn(r) == [kind |-> "return", result |-> r, class |-> "None"]
EcRaise(c) == [kind |-> "raise", result |-> NoExecution, class |-> c]
EcNone == [kind |-> "none", result |-> NoExecution, class |-> "None"]

\* __aenter__: except Exception as e: raise SandboxError(...)
AenterOnException(c) ==
    IF IsSubclass(c, "Exception") THEN "et.SandboxError" ELSE c

\* execute_code_in_sandbox: except Exception as e: raise SandboxError(...)
ExecuteCodeInSandboxOnException(c) ==
    IF IsSubclass(c, "Exception") THEN "et.SandboxError" ELSE c

\* Mutant: run_sandbox lets the exception out.
RunSandboxReraise(c) == SbRaise(c)

\* run_sandbox: except Exception as e: return {'success': False, ...}
RunSandboxOnException(c) ==
    IF IsSubclass(c, "Exception")
    THEN SbReturn([success |-> FALSE, output |-> "None",
                   error |-> "Sandbox execution failed: str(e)"])
    ELSE SbRaise(c)

\* An exception leaves __aenter__ and travels up to run_sandbox's caller.
ProvisioningFailed(c) ==
    RunSandboxOnException(ExecuteCodeInSandboxOnException(AenterOnException(c)))

\* Mutant: stderr is reported whatever the exit status.
ProcessResultStderrAlways(exit_code) ==
    [success |-> exit_code = 0, output |-> "stdout", error |-> "stderr",
     exit_code |-> exit_code]

\* execute_code: the result built from the finished process
ProcessResult(exit_code) ==
    [success |-> exit_code = 0, output |-> "stdout",
     error |-> IF exit_code # 0 THEN "stderr" ELSE "None", exit_code |-> exit_code]

\* execute_code: except Exception as e: return {'success': False, ...}
ExecuteCodeOnException(c) ==
    [success |-> FALSE, output |-> "", error |-> "str(e)", exit_code |-> 1]

\* run_sandbox: the mapping built from execution_result
RunSandboxResult(r) ==
    SbReturn([success |-> r.success, output |-> r.output, error |-> r.error])

\* Mutant: run_sandbox goes to the sandbox without looking at the code.
RunSandboxUnchecked(c) ==
    /\ sb_pc = "idle"
    /\ Len(sandbox_runs) < MaxSandboxRuns
    /\ code' = c
    /\ sandbox' = "None"
    /\ pending' = <<>>
    /\ remote' = <<>>
    /\ execution_result' = NoExecution
    /\ ec_out' = EcNone
    /\ qe_out' = EcNone
    /\ rs_out' = SbNone
    /\ sb_pc' = "create"
    /\ UNCHANGED <<dependencies, sandbox_runs, outsideSandbox>>

RunSandbox(c) ==
    /\ sb_pc = "idle"
    /\ Len(sandbox_runs) < MaxSandboxRuns
    /\ code' = c
    /\ sandbox' = "None"
    /\ pending' = <<>>
    /\ remote' = <<>>
    /\ execution_result' = NoExecution
    /\ ec_out' = EcNone
    /\ qe_out' = EcNone
    /\ IF IsBlank(c)
       THEN /\ rs_out' = SbReturn([success |-> FALSE, output |-> "None",
                                   error |-> "Code cannot be empty"])
            /\ sb_pc' = "done"
       ELSE /\ rs_out' = SbNone
            /\ sb_pc' = "create"
    /\ UNCHANGED <<dependencies, sandbox_runs, outsideSandbox>>

\* __aenter__: Sandbox.create
SandboxCreate ==
    /\ sb_pc = "create"
    /\ \/ /\ remote' = Append(remote, RemoteCall("create", 0, TRUE))
          /\ sandbox' = "env"
          /\ IF ~dependencies.isNone /\ dependencies.list # <<>>
             THEN pending' = dependencies.list /\ sb_pc' = "install"
             ELSE pending' = <<>> /\ sb_pc' = "execute"
          /\ UNCHANGED <<qe_out, rs_out>>
       \/ \E c \in ServiceErrors :
          /\ remote' = Append(remote, RemoteCall("create", 0, FALSE))
          /\ qe_out' = EcRaise(AenterOnException(c))
          /\ rs_out' = ProvisioningFailed(c)
          /\ sb_pc' = "done"
          /\ UNCHANGED <<sandbox, pending>>
    /\ UNCHANGED <<code, dependencies, execution_result, ec_out, sandbox_runs>>
    /\ UNCHANGED outsideSandbox

\* Mutant: the install loop goes on to the next package after a failure.
SandboxInstallContinues ==
    /\ sb_pc = "install"
    /\ \E ok \in BOOLEAN :
          remote' = Append(remote, RemoteCall("install", Head(pending), ok))
    /\ pending' = Tail(pending)
    /\ sb_pc' = IF Tail(pending) = <<>> THEN "execute" ELSE "install"
    /\ UNCHANGED <<code, dependencies, sandbox, execution_result, ec_out>>
    /\ UNCHANGED <<qe_out, rs_out, sandbox_runs, outsideSandbox>>

\* __aenter__: one iteration of the install loop
SandboxInstall ==
    /\ sb_pc = "install"
    /\ \/ /\ remote' = Append(remote, RemoteCall("install", Head(pending), TRUE))
          /\ pending' = Tail(pending)
          /\ sb_pc' = IF Tail(pending) = <<>> THEN "execute" ELSE "install"
          /\ UNCHANGED <<qe_out, rs_out>>
       \/ \E c \in ServiceErrors :
          /\ remote' = Append(remote, RemoteCall("install", Head(pending), FALSE))
          /\ qe_out' = EcRaise(AenterOnException(c))
          /\ rs_out' = ProvisioningFailed(c)
          /\ sb_pc' = "done"
          /\ UNCHANGED pending
    /\ UNCHANGED <<code, dependencies, sandbox, execution_result, ec_out>>
    /\ UNCHANGED <<sandbox_runs, outsideSandbox>>

\* execute_code inside the scoped body of quick_execute
SandboxExecute ==
    /\ sb_pc = "execute"
    /\ IF sandbox = "None"
       THEN /\ rs_out' = RunSandboxOnException(
                             ExecuteCodeInSandboxOnException("et.SandboxError"))
            /\ ec_out' = EcRaise("et.SandboxError")
            /\ qe_out' = EcRaise("et.SandboxError")
            /\ sb_pc' = "done"
            /\ UNCHANGED <<remote, execution_result>>
       ELSE /\ \/ \E exit_code \in {0, 1} :
                  /\ remote' = Append(remote, RemoteCall("run_python", 0, TRUE))
                  /\ execution_result' = ProcessResult(exit_code)
               \/ \E c \in ServiceErrors :
                  /\ remote' = Append(remote, RemoteCall("run_python", 0, FALSE))
                  /\ execution_result' = ExecuteCodeOnException(c)
            /\ ec_out' = EcReturn(execution_result')
            /\ sb_pc' = "exit"
            /\ UNCHANGED <<qe_out, rs_out>>
    /\ UNCHANGED <<code, dependencies, sandbox, pending, sandbox_runs, outsideSandbox>>

\* run_python is cut short by the cancellation of the task: CancelledError
\* derives from BaseException only, `except Exception` of execute_code does
\* not catch it and it leaves the scoped body.
SandboxExecuteCancelled ==
    /\ sb_pc = "execute"
    /\ sandbox # "None"
    /\ remote' = Append(remote, RemoteCall("run_python", 0, FALSE))
    /\ ec_out' = EcRaise("asyncio.CancelledError")
    /\ sb_pc' = "exit"
    /\ UNCHANGED <<code, dependencies, sandbox, pending, execution_result>>
    /\ UNCHANGED <<qe_out, rs_out, sandbox_runs, outsideSandbox>>

\* Mutant: an exception of destroy() leaves __aexit__ and takes the place of
\* the body's outcome.
AexitReraise(body, teardown) ==
    IF teardown # "None" THEN EcRaise(teardown) ELSE body

\* How `async with SecureSandbox(config)` ends, given how its body ended and
\* what destroy() raised ("None": nothing): __aexit__ catches Exception around
\* destroy() and returns None, so the body's outcome stands.
Aexit(body, teardown) ==
    IF teardown # "None" /\ ~IsSubclass(teardown, "Exception")
    THEN EcRaise(teardown)
    ELSE body

\* What leaves quick_execute travels up to run_sandbox's caller.
QuickExecuteEnded(out) ==
    IF out.kind = "return" THEN RunSandboxResult(out.result)
    ELSE RunSandboxOnException(ExecuteCodeInSandboxOnException(out.class))

\* __aexit__, then the returns up to run_sandbox's caller
SandboxExit ==
    /\ sb_pc = "exit"
    /\ IF sandbox # "None"
       THEN \E teardown \in {"None"} \cup ServiceErrors :
                /\ remote' = Append(remote,
                                    RemoteCall("destroy", 0, teardown = "None"))
                /\ qe_out' = Aexit(ec_out, teardown)
       ELSE /\ qe_out' = Aexit(ec_out, "None")
            /\ UNCHANGED remote
    /\ rs_out' = QuickExecuteEnded(qe_out')
    /\ sb_pc' = "done"
    /\ UNCHANGED <<code, dependencies, sandbox, pending, execution_result, ec_out>>
    /\ UNCHANGED <<sandbox_runs, outsideSandbox>>

\* execute_code called on a SecureSandbox object outside its scope: the object
\* was never acquired, its _sandbox is None.
ExecuteCodeUnacquired(c) ==
    /\ sb_pc = "idle"
    /\ sandbox = "None"
    /\ code' = c
    /\ ec_out' = EcRaise("et.SandboxError")
    /\ UNCHANGED <<sb_pc, dependencies, sandbox, pending, remote, execution_result>>
    /\ UNCHANGED <<qe_out, rs_out, sandbox_runs, outsideSandbox>>

\* run_sandbox hands its outcome to the caller.
SandboxEnds ==
    /\ sb_pc = "done"
    /\ sb_pc' = "idle"
    /\ code' = <<>>
    /\ sandbox' = "None"
    /\ pending' = <<>>
    /\ remote' = <<>>
    /\ execution_result' = NoExecution
    /\ ec_out' = EcNone
    /\ qe_out' = EcNone
    /\ rs_out' = SbNone
    /\ sandbox_runs' = Append(sandbox_runs, [kind |-> rs_out.kind,
                                              success |-> rs_out.result.success])
    /\ UNCHANGED <<dependencies, outsideSandbox>>

\* --------------------------------------------------------- RateLimiter

\* The two RateLimiter classes: gemini_integration/rate_limiter.py and
\* claude_integration/claude_client.py.
LimiterKinds == {"gemini", "claude"}

\* Token counts are kept in halves of a token: OneToken is the 1 of
\* `tokens >= 1` and `tokens -= 1`.
OneToken == 2

\* self.rate = rate_per_minute / 60.0, in half tokens per tick: one token
\* every two ticks, or one token every tick.
Rates == {1, 2}

Tasks == 1..NumTasks

\* Mutant: the refill is not capped.
RefillUncapped(tk, elapsed, r, cap) == tk + elapsed * r

\* min(self.burst_limit, self.tokens + time_passed * self.rate)
Refill(tk, elapsed, r, cap) == Min(cap * OneToken, tk + elapsed * r)

\* Mutant: a whole token is not enough.
HasTokenStrict(tk) == tk > OneToken

\* if tokens >= 1
HasToken(tk) == tk >= OneToken

\* (1 - tokens) / self.rate
WaitTime(tk, r) == (OneToken - tk) \div r

LimCallRecord(op, suspended) ==
    [op |-> op, at |-> now, suspended |-> suspended, result |-> "pending",
     value |-> 0]

\* asyncio.Lock.acquire as `async with self.lock` awaits it: taken at once
\* when free with nobody waiting, else the task queues and is suspended.
LockIsFree == lock = 0 /\ waiters = <<>>

\* The current call of task t ends with the given result: the `async with`
\* block is left, which releases the lock, and the task's coroutine returns.
LimFinish(t, result, value) ==
    /\ lim_log' = [lim_log EXCEPT ![t_call[t]].result = result,
                                  ![t_call[t]].value = value]
    /\ lock' = 0
    /\ t_pc' = [t_pc EXCEPT ![t] = "idle"]
    /\ t_call' = [t_call EXCEPT ![t] = 0]
    /\ t_nested' = [t_nested EXCEPT ![t] = FALSE]
    /\ running' = 0

\* Task t calls acquire() or get_retry_after() and reaches `async with
\* self.lock`.
LimCall(t, op) ==
    /\ running = 0
    /\ t_pc[t] = "idle"
    /\ Len(lim_log) < MaxCalls
    /\ lim_log' = Append(lim_log, LimCallRecord(op, ~LockIsFree))
    /\ t_call' = [t_call EXCEPT ![t] = Len(lim_log) + 1]
    /\ t_nested' = [t_nested EXCEPT ![t] = FALSE]
    /\ IF LockIsFree
       THEN /\ lock' = t
            /\ t_pc' = [t_pc EXCEPT ![t] = "update"]
            /\ running' = t
            /\ UNCHANGED waiters
       ELSE /\ waiters' = Append(waiters, t)
            /\ t_pc' = [t_pc EXCEPT ![t] = "blocked"]
            /\ running' = 0
            /\ UNCHANGED lock
    /\ UNCHANGED <<lim_kind, rate, burst_limit, tokens, last_update, now, t_wake>>
    /\ UNCHANGED outsideLimiter

\* asyncio.Lock.release woke the first waiter: it takes the lock and runs.
LimGrant(t) ==
    /\ running = 0
    /\ lock = 0
    /\ waiters # <<>>
    /\ Head(waiters) = t
    /\ t_pc[t] = "blocked"
    /\ lock' = t
    /\ waiters' = Tail(waiters)
    /\ t_pc' = [t_pc EXCEPT ![t] = "update"]
    /\ running' = t
    /\ UNCHANGED <<lim_kind, rate, burst_limit, tokens, last_update, now>>
    /\ UNCHANGED <<t_call, t_wake, t_nested, lim_log>>
    /\ UNCHANGED outsideLimiter

\* The refill: _update_tokens of the gemini class, the head of the while loop
\* of the claude class. get_retry_after of the claude class reads the clock
\* and changes nothing.
LimUpdate(t) ==
    /\ running = t
    /\ t_pc[t] = "update"
    /\ IF lim_kind = "claude" /\ lim_log[t_call[t]].op = "get_retry_after"
       THEN UNCHANGED <<tokens, last_update>>
       ELSE /\ tokens' = Refill(tokens, now - last_update, rate, burst_limit)
            /\ last_update' = now
    /\ t_pc' = [t_pc EXCEPT ![t] = "decide"]
    /\ UNCHANGED <<lim_kind, rate, burst_limit, now, lock, waiters, running>>
    /\ UNCHANGED <<t_call, t_wake, t_nested, lim_log>>
    /\ UNCHANGED outsideLimiter

\* Mutant: acquire returns True without taking the token.
LimAdmitFree(t) ==
    /\ tokens' = tokens
    /\ LimFinish(t, "True", now)
    /\ UNCHANGED <<waiters, t_wake>>

\* acquire with a token at hand: self.tokens -= 1; return True. The call's
\* record keeps the instant of the admission.
LimAdmit(t) ==
    /\ tokens' = tokens - OneToken
    /\ LimFinish(t, "True", now)
    /\ UNCHANGED <<waiters, t_wake>>

\* acquire of the gemini class without a token: the argument of log_warning
\* awaits self.get_retry_after(), which awaits the lock the task itself holds.
LimGeminiRefuse(t) ==
    /\ t_nested' = [t_nested EXCEPT ![t] = TRUE]
    /\ lim_log' = [lim_log EXCEPT ![t_call[t]].suspended = TRUE]
    /\ waiters' = Append(waiters, t)
    /\ t_pc' = [t_pc EXCEPT ![t] = "blocked"]
    /\ running' = 0
    /\ UNCHANGED <<tokens, lock, t_wake, t_call>>

\* acquire of the claude class without a token: await asyncio.sleep(wait_time)
\* inside the lock, then the loop again.
LimClaudeSleep(t) ==
    /\ t_wake' = [t_wake EXCEPT ![t] = now + WaitTime(tokens, rate)]
    /\ lim_log' = [lim_log EXCEPT ![t_call[t]].suspended = TRUE]
    /\ t_pc' = [t_pc EXCEPT ![t] = "sleeping"]
    /\ running' = 0
    /\ UNCHANGED <<tokens, lock, waiters, t_nested, t_call>>

\* get_retry_after: the value returned.
RetryAfterValue(kind, tk, r) ==
    IF kind = "gemini" /\ HasToken(tk) THEN 0 ELSE WaitTime(tk, r)

\* What follows the refill.
LimDecide(t) ==
    /\ running = t
    /\ t_pc[t] = "decide"
    /\ IF t_nested[t]
       THEN \* the inner get_retry_after returned and released the lock; acquire
            \* returns False and leaving its `async with` releases a free lock
            /\ LimFinish(t, "RuntimeError", 0)
            /\ UNCHANGED <<tokens, waiters, t_wake>>
       ELSE IF lim_log[t_call[t]].op = "get_retry_after"
       THEN /\ LimFinish(t, "number", RetryAfterValue(lim_kind, tokens, rate))
            /\ UNCHANGED <<tokens, waiters, t_wake>>
       ELSE IF HasToken(tokens) THEN LimAdmit(t)
       ELSE IF lim_kind = "gemini" THEN LimGeminiRefuse(t)
       ELSE LimClaudeSleep(t)
    /\ UNCHANGED <<lim_kind, rate, burst_limit, last_update, now>>
    /\ UNCHANGED outsideLimiter

\* asyncio.sleep is over: the task goes round the while loop.
LimWake(t) ==
    /\ running = 0
    /\ t_pc[t] = "sleeping"
    /\ now >= t_wake[t]
    /\ t_pc' = [t_pc EXCEPT ![t] = "update"]
    /\ t_wake' = [t_wake EXCEPT ![t] = 0]
    /\ running' = t
    /\ UNCHANGED <<lim_kind, rate, burst_limit, tokens, last_update, now, lock>>
    /\ UNCHANGED <<waiters, t_call, t_nested, lim_log>>
    /\ UNCHANGED outsideLimiter

\* Time passes while no task is running.
LimTick ==
    /\ running = 0
    /\ now < MaxTime
    /\ now' = now + 1
    /\ UNCHANGED <<lim_kind, rate, burst_limit, tokens, last_update, lock>>
    /\ UNCHANGED <<waiters, running, t_pc, t_call, t_wake, t_nested, lim_log>>
    /\ UNCHANGED outsideLimiter

\* ------------------------------------------------------ stage methods

\* GeminiReasoner owns a gemini_integration RateLimiter, ClaudeSynthesizer the
\* RateLimiter of claude_client.py.
LimiterOf(stage) == IF stage = "get_reasoning" THEN "gemini" ELSE "claude"

\* How `await self.rate_limiter.acquire()` ends: the claude class always
\* returns True, after sleeping if it must; the gemini class returns True or,
\* without a token, never returns (LimGeminiRefuse).
AcquireOutcomes(kind) == IF kind = "claude" THEN {"True"} ELSE {"True", "blocks"}

\* What the remote service hands back: a usable reply, an empty one, one that
\* cannot be parsed; or it raises a transport error.
ResponseKinds == {"ok", "empty", "unparseable"}
TransportErrors == {"ConnectionError", "TimeoutError"}

OutboundCall(mode, outcome) == [mode |-> mode, outcome |-> outcome]

ClReturn == [kind |-> "return", class |-> "None"]
ClRaise(c) == [kind |-> "raise", class |-> c]
ClNone == [kind |-> "none", class |-> "None"]

\* get_reasoning after generate_content_async: the exception raised, "None"
\* when parsed_output is returned. `except Exception: raise` changes nothing.
GetReasoningEnd(outcome) ==
    CASE outcome = "ok"          -> "None"
      [] outcome = "empty"       -> "et.GeminiAPIError"
      [] outcome = "unparseable" -> "et.ReasoningError"
      [] OTHER                   -> outcome

\* _handle_regular_response / _handle_streaming_response: every exception,
\* their own ClaudeAPIError included, leaves as ClaudeAPIError.
HandleResponseEnd(outcome) ==
    IF outcome = "ok" THEN "None" ELSE "et.ClaudeAPIError"

\* generate_code: except RateLimitError: raise; except Exception: raise
\* ClaudeAPIError(...)
GenerateCodeOnException(c) ==
    IF IsSubclass(c, "et.RateLimitError") THEN c
    ELSE IF IsSubclass(c, "Exception") THEN "et.ClaudeAPIError"
    ELSE c

\* stop=stop_after_attempt(3)
StopAfterAttempt == 3

\* Mutant: the decorator retries on every exception.
TenacityRetriesAny(c, n) ==
    IF n < StopAfterAttempt THEN "retry" ELSE "RetryError"

\* The @retry decorator of generate_code on an exception leaving the body.
TenacityDecision(c, n) ==
    IF IsSubclass(c, "et.RateLimitError") \/ IsSubclass(c, "ConnectionError")
    THEN IF n < StopAfterAttempt THEN "retry" ELSE "RetryError"
    ELSE "reraise"

\* The run of the stage method's body ends with exception c ("None": it
\* returns).
ClientBodyEnds(c) ==
    IF c = "None"
    THEN /\ cl_out' = ClReturn
         /\ cl_pc' = "done"
         /\ UNCHANGED attempt_number
    ELSE IF cl_stage = "get_reasoning"
    THEN /\ cl_out' = ClRaise(c)
         /\ cl_pc' = "done"
         /\ UNCHANGED attempt_number
    ELSE IF TenacityDecision(GenerateCodeOnException(c), attempt_number) = "retry"
    THEN /\ attempt_number' = attempt_number + 1
         /\ cl_pc' = "acquire"
         /\ UNCHANGED cl_out
    ELSE /\ cl_out' =
              IF TenacityDecision(GenerateCodeOnException(c), attempt_number)
                 = "RetryError"
              THEN ClRaise("tenacity.RetryError")
              ELSE ClRaise(GenerateCodeOnException(c))
         /\ cl_pc' = "done"
         /\ UNCHANGED attempt_number

\* Mutant: the stage method goes to its remote call without asking the limiter.
ClientInvokeUnlimited(stage, q) ==
    /\ cl_pc = "idle"
    /\ Len(cl_done) < MaxInvocations
    /\ cl_stage' = stage
    /\ cl_query' = q
    /\ cl_admitted' = FALSE
    /\ attempt_number' = 1
    /\ cl_outbound' = <<>>
    /\ IF stage = "get_reasoning" /\ q = <<>>
       THEN cl_out' = ClRaise("et.ValidationError") /\ cl_pc' = "done"
       ELSE cl_out' = ClNone /\ cl_pc' = "call"
    /\ UNCHANGED <<stream_response, cl_done, outsideClient>>

\* get_reasoning(query) or generate_code(query, reasoning_data) is invoked.
ClientInvoke(stage, q) ==
    /\ cl_pc = "idle"
    /\ Len(cl_done) < MaxInvocations
    /\ cl_stage' = stage
    /\ cl_query' = q
    /\ cl_admitted' = FALSE
    /\ attempt_number' = 1
    /\ cl_outbound' = <<>>
    /\ IF stage = "get_reasoning" /\ q = <<>>
       THEN cl_out' = ClRaise("et.ValidationError") /\ cl_pc' = "done"
       ELSE cl_out' = ClNone /\ cl_pc' = "acquire"
    /\ UNCHANGED <<stream_response, cl_done, outsideClient>>

\* if not await self.rate_limiter.acquire(): raise RateLimitError(...)
ClientAcquire ==
    /\ cl_pc = "acquire"
    /\ \E o \in AcquireOutcomes(LimiterOf(cl_stage)) :
          IF o = "True"
          THEN /\ cl_admitted' = TRUE
               /\ cl_pc' = IF cl_stage = "generate_code" /\ stream_response
                           THEN "stream" ELSE "call"
               /\ UNCHANGED <<attempt_number, cl_out>>
          ELSE IF o = "blocks"
          THEN /\ cl_pc' = "blocked"
               /\ UNCHANGED <<cl_admitted, attempt_number, cl_out>>
          ELSE /\ ClientBodyEnds("et.RateLimitError")
               /\ UNCHANGED cl_admitted
    /\ UNCHANGED <<stream_response, cl_stage, cl_query, cl_outbound, cl_done>>
    /\ UNCHANGED outsideClient

\* _handle_streaming_response: the streaming call; if it raises, generate_code
\* falls back to _handle_regular_response.
ClientStream ==
    /\ cl_pc = "stream"
    /\ \E outcome \in ResponseKinds \cup TransportErrors :
          /\ cl_outbound' = Append(cl_outbound, OutboundCall("stream", outcome))
          /\ IF HandleResponseEnd(outcome) = "None"
             THEN ClientBodyEnds("None")
             ELSE cl_pc' = "call" /\ UNCHANGED <<attempt_number, cl_out>>
    /\ UNCHANGED <<stream_response, cl_stage, cl_query, cl_admitted, cl_done>>
    /\ UNCHANGED outsideClient

\* generate_content_async of get_reasoning; messages.create of
\* _handle_regular_response.
ClientCall ==
    /\ cl_pc = "call"
    /\ \E outcome \in ResponseKinds \cup TransportErrors :
          /\ cl_outbound' = Append(cl_outbound,
                 OutboundCall(IF cl_stage = "get_reasoning"
                              THEN "generate_content" ELSE "regular", outcome))
          /\ IF cl_stage = "get_reasoning"
             THEN ClientBodyEnds(GetReasoningEnd(outcome))
             ELSE ClientBodyEnds(HandleResponseEnd(outcome))
    /\ UNCHANGED <<stream_response, cl_stage, cl_query, cl_admitted, cl_done>>
    /\ UNCHANGED outsideClient

\* The stage method hands its outcome to its caller.
ClientEnds ==
    /\ cl_pc = "done"
    /\ cl_done' = Append(cl_done, [stage |-> cl_stage, kind |-> cl_out.kind,
                                    admitted |-> cl_admitted,
                                    outbound |-> Len(cl_outbound)])
    /\ cl_pc' = "idle"
    /\ cl_stage' = "None"
    /\ cl_query' = <<>>
    /\ cl_admitted' = FALSE
    /\ attempt_number' = 0
    /\ cl_outbound' = <<>>
    /\ cl_out' = ClNone
    /\ UNCHANGED <<stream_response, outsideClient>>

\* ------------------------------------------------- response normalizers

\* Raw text is a sequence of tokens: a tag, a markdown fence, the XML
\* declaration, a control character, or one character of plain text ("x", or
\* " " for white space).
\* The markers of a markdown code block, opening (with its xml tag) and closing.
Fence == "[fence]xml"
FenceEnd == "[fence]"
Declaration == "<?xml?>"
ControlChar == "NUL"

OpenTag(tag) == "<" \o tag \o ">"
CloseTag(tag) == "</" \o tag \o ">"
\* A start tag the text ends before closing: `<reasoning` without `>`.
UnterminatedTag(tag) == "<" \o tag

ElementNames ==
    {"reasoning", "synthesis", "technical_requirements",
     "implementation_strategy", "guidance_for_claude", "item",
     "code_completion", "explanation"}

IsOpenTag(t) == \E tag \in ElementNames : t = OpenTag(tag)
IsCloseTag(t) == \E tag \in ElementNames : t = CloseTag(tag)
NameOf(t) == CHOOSE tag \in ElementNames : t \in {OpenTag(tag), CloseTag(tag)}
IsCharData(t) ==
    /\ ~IsOpenTag(t) /\ ~IsCloseTag(t)
    /\ t # Declaration /\ t # ControlChar
    /\ \A tag \in ElementNames : t # UnterminatedTag(tag)

Contains(s, tok) == \E i \in 1..Len(s) : s[i] = tok

\* str.find: the first index of tok, 0 where Python returns -1.
Find(s, tok) ==
    IF Contains(s, tok)
    THEN CHOOSE i \in 1..Len(s) : s[i] = tok /\ \A j \in 1..(i - 1) : s[j] # tok
    ELSE 0

\* str.split(tok)
RECURSIVE Split(_, _)
Split(s, tok) ==
    IF ~Contains(s, tok) THEN <<s>>
    ELSE <<SubSeq(s, 1, Find(s, tok) - 1)>>
         \o Split(SubSeq(s, Find(s, tok) + 1, Len(s)), tok)

\* Lines 88-91 of xml_processor.py, 71-74 of xml_validator.py: the markdown
\* code block markers.
StripFences(s) ==
    LET a == IF s # <<>> /\ Head(s) = Fence THEN Strip(Tail(s)) ELSE s
    IN  IF a # <<>> /\ a[Len(a)] = FenceEnd
        THEN Strip(SubSeq(a, 1, Len(a) - 1))
        ELSE a

\* xml_content[xml_content.find("?>") + 2:].lstrip()
StripDeclaration(s) ==
    IF s # <<>> /\ Head(s) = Declaration THEN LStrip(Tail(s)) ELSE s

\* if not xml_content.lstrip().startswith('<reasoning'): wrap it in the root
EnsureRoot(s, root) ==
    IF LStrip(s) # <<>>
       /\ Head(LStrip(s)) \in {OpenTag(root), UnterminatedTag(root)}
    THEN s
    ELSE <<OpenTag(root)>> \o s \o <<CloseTag(root)>>

\* GeminiXMLProcessor._clean_xml_content: control characters are dropped (the
\* replacements find none of their patterns in these tokens), then strip().
CleanXmlContent(s) == Strip(SelectSeq(s, LAMBDA t : t # ControlChar))

\* GeminiXMLProcessor._aggressive_clean on text _clean_xml_content has been
\* through: only the missing root is still to add.
AggressiveClean(s) ==
    LET c == SelectSeq(s, LAMBDA t : t # ControlChar)
    IN  Strip(IF \E i \in 1..Len(c) :
                     c[i] \in {OpenTag("reasoning"), UnterminatedTag("reasoning")}
              THEN c
              ELSE <<OpenTag("reasoning")>> \o c \o <<CloseTag("reasoning")>>)

\* The text is one element with properly nested content.
RECURSIVE Balanced(_, _)
Balanced(s, stack) ==
    IF s = <<>> THEN stack = <<>>
    ELSE LET t == Head(s) IN
         IF IsOpenTag(t) THEN Balanced(Tail(s), <<NameOf(t)>> \o stack)
         ELSE IF IsCloseTag(t)
         THEN /\ stack # <<>>
              /\ Head(stack) = NameOf(t)
              /\ (Tail(stack) = <<>> => Tail(s) = <<>>)
              /\ Balanced(Tail(s), Tail(stack))
         ELSE IsCharData(t) /\ stack # <<>> /\ Balanced(Tail(s), stack)

WellFormed(s, root) ==
    s # <<>> /\ Head(s) = OpenTag(root) /\ Balanced(s, <<>>)

\* What the lenient parser (recover=True) makes of the text: the tree of a
\* well-formed document; of a document whose root start tag never ends,
\* either no root at all or a root without children.
ParseOutcomes(s, root) ==
    IF WellFormed(s, root) THEN {"tree"} ELSE {"no_root", "empty_root"}

\* root.findall('.//<tag>/item'): the text of each item whose parent is a
\* <tag> element, in document order.
RECURSIVE ItemsUnder(_, _, _, _, _)
ItemsUnder(s, tag, inSection, inItem, cur) ==
    IF s = <<>> THEN <<>>
    ELSE LET t == Head(s) IN
         IF t = OpenTag(tag) THEN ItemsUnder(Tail(s), tag, TRUE, FALSE, <<>>)
         ELSE IF t = CloseTag(tag) THEN ItemsUnder(Tail(s), tag, FALSE, FALSE, <<>>)
         ELSE IF t = OpenTag("item")
         THEN ItemsUnder(Tail(s), tag, inSection, inSection, <<>>)
         ELSE IF t = CloseTag("item")
         THEN (IF inItem THEN <<cur>> ELSE <<>>)
              \o ItemsUnder(Tail(s), tag, inSection, FALSE, <<>>)
         ELSE IF inItem /\ IsCharData(t)
         THEN ItemsUnder(Tail(s), tag, inSection, inItem, Append(cur, t))
         ELSE ItemsUnder(Tail(s), tag, inSection, inItem, cur)

\* for x in ...: if x.text and x.text.strip(): append(x.text.strip())
RECURSIVE NonBlankStripped(_)
NonBlankStripped(texts) ==
    IF texts = <<>> THEN <<>>
    ELSE (IF Strip(Head(texts)) # <<>> THEN <<Strip(Head(texts))>> ELSE <<>>)
         \o NonBlankStripped(Tail(texts))

ReasoningDict(tr, is, g, metadata, thoughts) ==
    [technical_requirements |-> tr, implementation_strategy |-> is,
     guidance_for_claude |-> g, sandbox_requirements |-> "None",
     metadata |-> metadata, has_thoughts |-> thoughts]

\* Lines 138-163 of xml_processor.py: the sections found by structural path.
GeminiExtract(s) ==
    ReasoningDict(
        NonBlankStripped(ItemsUnder(s, "technical_requirements", FALSE, FALSE, <<>>)),
        NonBlankStripped(ItemsUnder(s, "implementation_strategy", FALSE, FALSE, <<>>)),
        NonBlankStripped(ItemsUnder(s, "guidance_for_claude", FALSE, FALSE, <<>>)),
        "{}", TRUE)

\* xml_content[find(start_tag) + len(start_tag) : find(end_tag)] when both
\* tags occur.
SectionBetween(s, tag) ==
    IF Contains(s, OpenTag(tag)) /\ Contains(s, CloseTag(tag))
    THEN SubSeq(s, Find(s, OpenTag(tag)) + 1, Find(s, CloseTag(tag)) - 1)
    ELSE <<>>

\* for item in section.split("<item>"): if "</item>" in item:
\*     text = item[:item.find("</item>")].strip(); if text: append(text)
RECURSIVE RecoveredItems(_)
RecoveredItems(pieces) ==
    IF pieces = <<>> THEN <<>>
    ELSE LET item == Head(pieces)
             text == Strip(SubSeq(item, 1, Find(item, CloseTag("item")) - 1))
         IN  (IF Contains(item, CloseTag("item")) /\ text # <<>>
              THEN <<text>> ELSE <<>>)
             \o RecoveredItems(Tail(pieces))

\* any(result.values()) of _basic_string_recovery: some list is non-empty
\* (sandbox_requirements is None and metadata {} for text without a
\* sandbox_requirements element).
HasContent(result) ==
    \/ result.technical_requirements # <<>>
    \/ result.implementation_strategy # <<>>
    \/ result.guidance_for_claude # <<>>

GeminiBasicStringRecovery(s) ==
    ReasoningDict(
        RecoveredItems(Split(SectionBetween(s, "technical_requirements"), OpenTag("item"))),
        RecoveredItems(Split(SectionBetween(s, "implementation_strategy"), OpenTag("item"))),
        RecoveredItems(Split(SectionBetween(s, "guidance_for_claude"), OpenTag("item"))),
        "{}", FALSE)

\* GeminiXMLProcessor._process_fallback: self._process_valid_xml does not
\* exist in this class, so the except branch builds the result.
GeminiProcessFallback ==
    ReasoningDict(<<"Unable to process Gemini output">>,
                  <<"Using fallback implementation">>,
                  <<"Generate minimal working code">>, "{error}", FALSE)

NoDict == ReasoningDict(<<>>, <<>>, <<>>, "None", FALSE)
NzReturn(r) == [kind |-> "return", result |-> r, class |-> "None"]
NzRaise(c) == [kind |-> "raise", result |-> NoDict, class |-> c]
NzNone == [kind |-> "none", result |-> NoDict, class |-> "None"]

GeminiProcessWithRecovery(s) ==
    LET recovered_content == GeminiBasicStringRecovery(s)
    IN  IF HasContent(recovered_content)
        THEN NzReturn(recovered_content)
        ELSE NzReturn(GeminiProcessFallback)

\* Lines 81-109 of xml_processor.py.
GeminiPrepare(s) ==
    CleanXmlContent(EnsureRoot(StripDeclaration(StripFences(Strip(s))), "reasoning"))

\* GeminiXMLProcessor.validate_and_process, given what the parser made of the
\* prepared text.
GeminiResult(s, allow, parsed) ==
    LET prepared == GeminiPrepare(s)
        result == IF parsed = "tree" THEN GeminiExtract(prepared)
                  ELSE ReasoningDict(<<>>, <<>>, <<>>, "{}", TRUE)
    IN  IF parsed = "no_root"
        THEN \* etree.parse raised, also after _aggressive_clean, or getroot()
             \* is None: one of the two except clauses
             IF allow THEN GeminiProcessWithRecovery(AggressiveClean(prepared))
             ELSE NzRaise("XMLProcessingError")
        ELSE IF result.technical_requirements = <<>>
                /\ result.implementation_strategy = <<>>
        THEN IF allow THEN GeminiProcessWithRecovery(prepared)
             ELSE NzRaise("XMLProcessingError")
        ELSE NzReturn(result)

\* _get_element_text: elements[0].text.strip() of the first element the path
\* finds, None when there is none or its text is empty.
NoneText == [isNone |-> TRUE, text |-> <<>>]
SomeText(text) == [isNone |-> FALSE, text |-> text]
RECURSIVE LeadingCharData(_)
LeadingCharData(s) ==
    IF s = <<>> \/ ~IsCharData(Head(s)) THEN <<>>
    ELSE <<Head(s)>> \o LeadingCharData(Tail(s))
GetElementText(s, tag) ==
    IF ~Contains(s, OpenTag(tag)) THEN NoneText
    ELSE LET text == LeadingCharData(SubSeq(s, Find(s, OpenTag(tag)) + 1, Len(s)))
         IN  IF text = <<>> THEN NoneText ELSE SomeText(Strip(text))

SynthesisDict(code_completion, explanation, metadata) ==
    [code_completion |-> code_completion, explanation |-> explanation,
     sandbox_config |-> "None", metadata |-> metadata]

\* ClaudeXMLValidator._process_fallback: the dictionary of its except branch,
\* or the fallback template's fields when the template parses.
ClaudeProcessFallback ==
    {SynthesisDict(<<"// Failed to process Claude output">>, NoneText, "{error}"),
     SynthesisDict(<<"// Failed to parse Claude output">>,
                   SomeText(<<"Code generation failed - using fallback template">>),
                   "{fallback}")}

\* Lines 65-94 of xml_validator.py.
ClaudePrepare(s) ==
    EnsureRoot(StripDeclaration(StripFences(Strip(s))), "synthesis")

\* ClaudeXMLValidator.validate_and_process, given what the parser made of the
\* prepared text.
ClaudeResult(s, parsed) ==
    LET prepared == ClaudePrepare(s)
        code_completion == IF parsed = "tree"
                           THEN GetElementText(prepared, "code_completion")
                           ELSE NoneText
        explanation == IF parsed = "tree"
                       THEN GetElementText(prepared, "explanation")
                       ELSE NoneText
    IN  IF s = <<>> THEN NzRaise("XMLProcessingError")
        ELSE IF code_completion.isNone \/ code_completion.text = <<>>
        THEN \* raise XMLProcessingError("Missing code completion"), raised
             \* again by `except Exception`
             NzRaise("XMLProcessingError")
        ELSE NzReturn(SynthesisDict(code_completion.text, explanation, "{}"))

\* The raw texts handed to the normalizers: up to MaxSections sections, each
\* with up to MaxItems items, bare or decorated.
ItemTexts == {<<" ">>, <<" ", "x">>}
SeqsUpTo(S, n) == UNION {[1..k -> S] : k \in 0..n}

RECURSIVE Concat(_)
Concat(ss) == IF ss = <<>> THEN <<>> ELSE Head(ss) \o Concat(Tail(ss))

RenderItem(text) == <<OpenTag("item")>> \o text \o <<CloseTag("item")>>
RenderSection(tag, items) ==
    <<OpenTag(tag)>>
    \o Concat([i \in 1..Len(items) |-> RenderItem(items[i])])
    \o <<CloseTag(tag)>>
RenderLeaf(tag, text) == <<OpenTag(tag)>> \o text \o <<CloseTag(tag)>>

GeminiSections ==
    {RenderSection(tag, items) :
        tag \in {"technical_requirements", "implementation_strategy",
                 "guidance_for_claude"},
        items \in SeqsUpTo(ItemTexts, MaxItems)}
ClaudeSections ==
    {RenderLeaf(tag, text) :
        tag \in {"code_completion", "explanation"},
        text \in ItemTexts \cup {<<>>}}

Decorations ==
    {"plain", "fenced", "declared", "rooted", "control", "unterminated"}
Decorate(body, d, root) ==
    CASE d = "plain" -> body
      [] d = "fenced" -> <<Fence, " ">> \o body \o <<" ", FenceEnd>>
      [] d = "declared" ->
            <<Declaration, " ", OpenTag(root)>> \o body \o <<CloseTag(root)>>
      [] d = "rooted" -> <<OpenTag(root)>> \o body \o <<CloseTag(root)>>
      [] d = "control" -> <<ControlChar>> \o body
      [] d = "unterminated" -> <<UnterminatedTag(root)>> \o body

GeminiPayloads ==
    {Decorate(Concat(body), d, "reasoning") :
        body \in SeqsUpTo(GeminiSections, MaxSections), d \in Decorations}
ClaudePayloads ==
    {Decorate(Concat(body), d, "synthesis") :
        body \in SeqsUpTo(ClaudeSections, MaxSections),
        d \in Decorations \ {"control"}}

\* One validate_and_process call of GeminiXMLProcessor on the text at hand.
GeminiValidateAndProcess ==
    /\ nz_kind = "gemini"
    /\ nz_out = NzNone
    /\ \E parsed \in ParseOutcomes(GeminiPrepare(xml_content), "reasoning") :
           nz_out' = GeminiResult(xml_content, allow_recovery, parsed)
    /\ UNCHANGED <<nz_kind, xml_content, allow_recovery>>
    /\ UNCHANGED outsideNormalizer

\* One validate_and_process call of ClaudeXMLValidator on the text at hand.
ClaudeValidateAndProcess ==
    /\ nz_kind = "claude"
    /\ nz_out = NzNone
    /\ \E parsed \in ParseOutcomes(ClaudePrepare(xml_content), "synthesis") :
           nz_out' = ClaudeResult(xml_content, parsed)
    /\ UNCHANGED <<nz_kind, xml_content, allow_recovery>>
    /\ UNCHANGED outsideNormalizer

\* --------------------------------------------------------------- specs

\* The configurations tried: every combination of the values below that
\* RetryConfig.validate accepts.
RetryConfigs ==
    {c \in [max_retries : -1..MaxRetries, base_delay : 0..MaxDelay,
            max_delay : 0..MaxDelay, jitter_factor : 0..JitterDen + 1,
            exponential_base : 1..3] : Validate(c)}

\* The orchestrator's backoff when only max_retries is varied.
PlainBackoff ==
    /\ base_delay = 1
    /\ max_delay = MaxDelay
    /\ jitter_factor = 0
    /\ exponential_base = 2

\* A handler built from any accepted configuration.
AnyBackoff ==
    \E c \in RetryConfigs :
        /\ max_retries = c.max_retries
        /\ base_delay = c.base_delay
        /\ max_delay = c.max_delay
        /\ jitter_factor = c.jitter_factor
        /\ exponential_base = c.exponential_base

InitRetryVars ==
    /\ max_retries \in 0..MaxRetries
    /\ operation = "None"
    /\ ex_pc = "idle"
    /\ attempt = 0
    /\ last_error = NoExc
    /\ ex_out = NoOutcome
    /\ op_log = <<>>
    /\ sleeps = <<>>

InitQueryVars ==
    /\ pq_pc = "idle"
    /\ query = <<>>
    /\ reasoning_output = "None"
    /\ reasoning_end = NoOutcome
    /\ calls = NoCalls
    /\ pq_out = PqNone
    /\ completed = <<>>

\* max_history_size: int = 100
DefaultMaxHistorySize == 100

\* __init__: self.history = []
InitHistoryVars(sizes) ==
    /\ max_history_size \in sizes
    /\ history = <<>>
    /\ appended = <<>>
    /\ got = <<>>

InitSandboxVars(choices) ==
    /\ sb_pc = "idle"
    /\ code = <<>>
    /\ dependencies \in choices
    /\ sandbox = "None"
    /\ pending = <<>>
    /\ remote = <<>>
    /\ execution_result = NoExecution
    /\ ec_out = EcNone
    /\ qe_out = EcNone
    /\ rs_out = SbNone
    /\ sandbox_runs = <<>>

\* __init__ of either RateLimiter class: the bucket starts full.
InitLimiterVars(kinds, rates, bursts) ==
    /\ lim_kind \in kinds
    /\ rate \in rates
    /\ burst_limit \in bursts
    /\ tokens = burst_limit * OneToken
    /\ last_update = 0
    /\ now = 0
    /\ lock = 0
    /\ waiters = <<>>
    /\ running = 0
    /\ t_pc = [t \in Tasks |-> "idle"]
    /\ t_call = [t \in Tasks |-> 0]
    /\ t_wake = [t \in Tasks |-> 0]
    /\ t_nested = [t \in Tasks |-> FALSE]
    /\ lim_log = <<>>

\* The limiter of a specification that makes no limiter call.
InitLimiterUnused == InitLimiterVars({"gemini"}, {1}, {1})

\* stream_response: bool = False
InitClientVars(streams) ==
    /\ stream_response \in streams
    /\ cl_pc = "idle"
    /\ cl_stage = "None"
    /\ cl_query = <<>>
    /\ cl_admitted = FALSE
    /\ attempt_number = 0
    /\ cl_outbound = <<>>
    /\ cl_out = ClNone
    /\ cl_done = <<>>

\* No validate_and_process call has been made.
InitNormalizerVars(kinds) ==
    /\ nz_kind \in kinds
    /\ xml_content \in (IF nz_kind = "gemini" THEN GeminiPayloads ELSE ClaudePayloads)
    /\ allow_recovery \in (IF nz_kind = "gemini" THEN BOOLEAN ELSE {TRUE})
    /\ nz_out = NzNone

\* The normalizer of a specification that makes no normalizer call.
InitNormalizerUnused ==
    nz_kind = "gemini" /\ xml_content = <<>> /\ allow_recovery = TRUE /\ nz_out = NzNone

\* RetryHandler.execute on its own, handed an arbitrary operation.
InitRetry ==
    /\ InitRetryVars /\ PlainBackoff /\ InitQueryVars
    /\ InitHistoryVars({DefaultMaxHistorySize}) /\ InitSandboxVars({NoneList})
    /\ InitLimiterUnused /\ InitClientVars({FALSE}) /\ InitNormalizerUnused
NextRetry == ExecStart \/ ExecSleep \/ ExecAttempt
SpecRetry == InitRetry /\ [][NextRetry]_vars

\* RetryHandler.execute under every accepted configuration, handed an
\* operation that times out.
InitBackoff ==
    /\ InitRetryVars /\ AnyBackoff /\ InitQueryVars
    /\ InitHistoryVars({DefaultMaxHistorySize}) /\ InitSandboxVars({NoneList})
    /\ InitLimiterUnused /\ InitClientVars({FALSE}) /\ InitNormalizerUnused
NextBackoff == ExecStartTimingOut \/ ExecSleep \/ ExecAttempt
SpecBackoff == InitBackoff /\ [][NextBackoff]_vars

\* One orchestrator serving process_query calls one after the other.
Init ==
    /\ InitRetryVars /\ PlainBackoff /\ InitQueryVars
    /\ InitHistoryVars({DefaultMaxHistorySize}) /\ InitSandboxVars({NoneList})
    /\ InitLimiterUnused /\ InitClientVars({FALSE}) /\ InitNormalizerUnused
Next ==
    \/ \E q \in Queries : ProcessQuery(q)
    \/ ExecSleep
    \/ ExecAttempt
    \/ ReasoningReturned
    \/ StageRaised
    \/ SynthesisReturned
    \/ QueryEnds
Spec == Init /\ [][Next]_vars

\* The history of one orchestrator under _update_history and get_history.
InitHistory ==
    /\ InitRetryVars /\ max_retries = 0 /\ PlainBackoff /\ InitQueryVars
    /\ InitHistoryVars(0..MaxHistorySize) /\ InitSandboxVars({NoneList})
    /\ InitLimiterUnused /\ InitClientVars({FALSE}) /\ InitNormalizerUnused
NextHistory ==
    \/ \E q \in {<<"a">>, <<"b">>}, success \in BOOLEAN : UpdateHistory(q, success)
    \/ \E limit \in {NoneInt} \cup {SomeInt(n) : n \in 0..MaxHistorySize},
          success_only \in BOOLEAN : GetHistoryCall(limit, success_only)
SpecHistory == InitHistory /\ [][NextHistory]_vars

\* One orchestrator serving run_sandbox calls one after the other.
InitSandbox ==
    /\ InitRetryVars /\ max_retries = 0 /\ PlainBackoff /\ InitQueryVars
    /\ InitHistoryVars({DefaultMaxHistorySize}) /\ InitSandboxVars(DependencyChoices)
    /\ InitLimiterUnused /\ InitClientVars({FALSE}) /\ InitNormalizerUnused
NextSandbox ==
    \/ \E c \in Codes : RunSandbox(c)
    \/ SandboxCreate
    \/ SandboxInstall
    \/ SandboxExecute
    \/ SandboxExit
    \/ \E c \in Codes : ExecuteCodeUnacquired(c)
    \/ SandboxEnds
SpecSandbox == InitSandbox /\ [][NextSandbox]_vars

\* The same, in a task that may be cancelled while the code runs.
NextSandboxCancellable == NextSandbox \/ SandboxExecuteCancelled
SpecSandboxCancellable == InitSandbox /\ [][NextSandboxCancellable]_vars

\* One RateLimiter of either class, called by the tasks of one event loop.
InitLimiter ==
    /\ InitRetryVars /\ max_retries = 0 /\ PlainBackoff /\ InitQueryVars
    /\ InitHistoryVars({DefaultMaxHistorySize}) /\ InitSandboxVars({NoneList})
    /\ InitLimiterVars(LimiterKinds, Rates, 0..MaxBurst)
    /\ InitClientVars({FALSE}) /\ InitNormalizerUnused
NextLimiter ==
    \/ \E t \in Tasks, op \in {"acquire", "get_retry_after"} : LimCall(t, op)
    \/ \E t \in Tasks : LimGrant(t)
    \/ \E t \in Tasks : LimUpdate(t)
    \/ \E t \in Tasks : LimDecide(t)
    \/ \E t \in Tasks : LimWake(t)
    \/ LimTick
SpecLimiter == InitLimiter /\ [][NextLimiter]_vars

\* The event loop runs every task that is ready and the clock goes on.
LimiterFairness ==
    /\ WF_vars(LimTick)
    /\ \A t \in Tasks : WF_vars(LimGrant(t) \/ LimUpdate(t) \/ LimDecide(t) \/ LimWake(t))
SpecLimiterFair == SpecLimiter /\ LimiterFairness

\* The two clients' stage methods, invoked one after the other.
InitClient ==
    /\ InitRetryVars /\ max_retries = 0 /\ PlainBackoff /\ InitQueryVars
    /\ InitHistoryVars({DefaultMaxHistorySize}) /\ InitSandboxVars({NoneList})
    /\ InitLimiterUnused /\ InitClientVars(BOOLEAN) /\ InitNormalizerUnused
NextClient ==
    \/ \E stage \in Stages, q \in {<<>>, <<"a">>} : ClientInvoke(stage, q)
    \/ ClientAcquire
    \/ ClientStream
    \/ ClientCall
    \/ ClientEnds
SpecClient == InitClient /\ [][NextClient]_vars

\* The two normalizers, each handed one raw text.
InitNormalizer ==
    /\ InitRetryVars /\ max_retries = 0 /\ PlainBackoff /\ InitQueryVars
    /\ InitHistoryVars({DefaultMaxHistorySize}) /\ InitSandboxVars({NoneList})
    /\ InitLimiterUnused /\ InitClientVars({FALSE})
    /\ InitNormalizerVars({"gemini", "claude"})
NextNormalizer == GeminiValidateAndProcess \/ ClaudeValidateAndProcess
SpecNormalizer == InitNormalizer /\ [][NextNormalizer]_vars

\* ---------------------------------------------------------------- claims

\* The retryable set as the retry contract lists it.
ListedRetryable ==
    {"aiohttp.ClientError", "TimeoutError", "ConnectionError", "OSError",
     "et.RateLimitError", "et.ReasoningError", "et.SynthesisError"}

RetryableRaise(o) == o.kind = "raise" /\ o.exc.class \in ListedRetryable
OtherRaise(o) == o.kind = "raise" /\ o.exc.class \notin ListedRetryable

\* C1: for every K <= max_retries, while the operation has raised retryable
\* errors on its first K invocations execute goes on to invoke it again, and if
\* invocation K+1 returns a value execute returns that value after exactly K+1
\* invocations.
C1_RetryThenSucceed ==
    \A k \in 0..max_retries :
        (ex_pc # "idle" /\ Len(op_log) >= k
         /\ \A i \in 1..k : RetryableRaise(op_log[i]))
        => /\ Len(op_log) = k => ex_pc \in {"sleep", "call"}
           /\ (Len(op_log) > k /\ op_log[k + 1].kind = "return")
              => /\ ex_pc = "returned"
                 /\ ex_out.kind = "return"
                 /\ ex_out.value = op_log[k + 1].value
                 /\ Len(op_log) = k + 1

C1_Witness ==
    /\ max_retries = 2
    /\ ex_pc = "returned"
    /\ Len(op_log) = 3
    /\ RetryableRaise(op_log[1]) /\ RetryableRaise(op_log[2])
    /\ ex_out.value = "dict_full"

C3_NonRetryableOnce ==
    \A i \in 1..Len(op_log) :
        OtherRaise(op_log[i])
        => /\ Len(op_log) = i
           /\ ex_pc = "raised"
           /\ ex_out = Raised(op_log[i].exc)
           /\ ~ex_out.wrapped
           /\ Len(sleeps) = i - 1

C3_Witness ==
    /\ max_retries = 2
    /\ Len(op_log) = 1
    /\ OtherRaise(op_log[1])
    /\ ex_pc = "raised"
    /\ sleeps = <<>>

\* C4: within one process_query call generate_code is invoked only after the
\* reasoning stage's execute has returned, and never once it has raised.
C4_SynthesisAfterReasoning ==
    /\ (calls["generate_code"] > 0 \/ pq_pc = "synthesis"
        \/ operation = "generate_code")
       => reasoning_end.kind = "return" /\ calls["get_reasoning"] >= 1
    /\ reasoning_end.kind = "raise"
       => calls["generate_code"] = 0 /\ pq_pc = "done"

C4_Witness ==
    /\ max_retries >= 1
    /\ pq_pc = "done"
    /\ reasoning_end.kind = "raise"
    /\ reasoning_end.wrapped
    /\ calls["get_reasoning"] = max_retries + 1
    /\ calls["generate_code"] = 0

BusinessNames ==
    {"RateLimitError", "ReasoningError", "SynthesisError", "ValidationError",
     "SandboxError"}

C6_OriginalErrorKept ==
    (pq_pc = "done" /\ ex_pc = "raised" /\ ex_out.wrapped)
    => /\ pq_out.kind = "return"
       /\ ~pq_out.result.success
       /\ pq_out.result.error.type = ClassName(op_log[Len(op_log)].exc.class)
       /\ pq_out.result.error.message = op_log[Len(op_log)].exc.message
       /\ pq_out.result.error.type # "RetryExhaustedError"

C6_Witness ==
    /\ pq_pc = "done"
    /\ operation = "generate_code"
    /\ ex_out.wrapped
    /\ Len(op_log) = 3
    /\ op_log[1].exc.class = "et.RateLimitError"
    /\ op_log[3].exc.class = "et.SynthesisError"
    /\ pq_out.result.error.type = "SynthesisError"

\* C7: if the reasoning stage raises RateLimitError with retry_after = r on
\* every attempt, the failure has type "RateLimitError" and its details hold
\* the entry retry_after = r.
C7_RetryAfterInDetails ==
    \A r \in {2, 5} :
        (pq_pc = "done" /\ operation = "get_reasoning" /\ ex_pc = "raised"
         /\ Len(op_log) = max_retries + 1
         /\ \A i \in 1..Len(op_log) :
                /\ op_log[i].kind = "raise"
                /\ op_log[i].exc.class = "et.RateLimitError"
                /\ op_log[i].exc.retry_after = r)
        => /\ pq_out.result.error.type = "RateLimitError"
           /\ <<"retry_after", r>> \in pq_out.result.error.details.items

\* C8: every process_query call that has ended has appended one entry for its
\* query to the history: after n <= max_history_size calls get_history()
\* returns n entries, in completion order.
C8_EveryQueryRecorded ==
    Len(completed) <= max_history_size
    => /\ Len(GetHistory(history, NoneInt, FALSE)) = Len(completed)
       /\ \A i \in 1..Len(completed) :
              GetHistory(history, NoneInt, FALSE)[i].query = completed[i]

\* C9: for max_history_size >= 1, after more than max_history_size updates the
\* history, and get_history() without arguments, hold exactly the
\* max_history_size most recently appended entries in their original order.
C9_HistoryKeepsMostRecent ==
    (max_history_size >= 1 /\ Len(appended) > max_history_size)
    => /\ Len(history) = max_history_size
       /\ history = SubSeq(appended, Len(appended) - max_history_size + 1,
                           Len(appended))
       /\ GetHistory(history, NoneInt, FALSE) = history

C9_Witness ==
    /\ max_history_size = 2
    /\ Len(appended) = 4
    /\ history = SubSeq(appended, 3, 4)
    /\ got = history

\* The steps of the running run_sandbox at which the remote service raised.
Faults == { remote[i].op : i \in { j \in 1..Len(remote) : ~remote[j].ok } }

ProgramFailed ==
    \E i \in 1..Len(remote) : remote[i].op = "run_python" /\ remote[i].ok
                              /\ execution_result.exit_code # 0

BlankText(s) == \A i \in 1..Len(s) : s[i] = " "

\* C11: run_sandbox called with empty or whitespace-only code returns
\* success = false with an error message, and no call is made on the remote
\* sandbox service: no environment is created and execute_code is not entered.
C11_BlankCodeNotRun ==
    (sb_pc # "idle" /\ BlankText(code))
    => /\ sb_pc = "done"
       /\ rs_out.kind = "return"
       /\ ~rs_out.result.success
       /\ rs_out.result.error # "None"
       /\ remote = <<>>
       /\ sandbox = "None"
       /\ ec_out = EcNone

C11_Witness ==
    /\ sb_pc = "done"
    /\ code = <<" ">>
    /\ rs_out.kind = "return"
    /\ ~rs_out.result.success
    /\ remote = <<>>

\* C12: when a run that went through quick_execute has ended, by a return or
\* by an exception, every remote environment that was created has had destroy
\* invoked on it afterwards, whichever later step failed.
C12_CreatedIsDestroyed ==
    sb_pc = "done"
    => \A i \in 1..Len(remote) :
           (remote[i].op = "create" /\ remote[i].ok)
           => \E j \in (i + 1)..Len(remote) : remote[j].op = "destroy"

ProcessFinished ==
    \E i \in 1..Len(remote) : remote[i].op = "run_python" /\ remote[i].ok

\* C20: on an acquired sandbox execute_code returns, never raises; for a
\* process that finished the result has success = (exit_code = 0), error =
\* stderr when exit_code is non-zero and no error when it is zero. On a
\* sandbox that was never acquired it raises SandboxError and runs nothing.
C20_ExecuteCodeResult ==
    /\ (ec_out.kind # "none" /\ sandbox # "None") => ec_out.kind = "return"
    /\ (ec_out.kind = "return" /\ ProcessFinished)
       => /\ ec_out.result.success = (ec_out.result.exit_code = 0)
          /\ ec_out.result.exit_code # 0 => ec_out.result.error = "stderr"
          /\ ec_out.result.exit_code = 0 => ec_out.result.error = "None"
    /\ (ec_out.kind # "none" /\ sandbox = "None")
       => /\ ec_out = EcRaise("et.SandboxError")
          /\ \A i \in 1..Len(remote) : remote[i].op # "run_python"

C20_Witness ==
    /\ sandbox # "None"
    /\ ProcessFinished
    /\ ec_out.kind = "return"
    /\ ec_out.result.exit_code = 1
    /\ ~ec_out.result.success
    /\ ec_out.result.error = "stderr"

ProviderApiErrors == {"et.GeminiAPIError", "et.ClaudeAPIError"}

\* C16: an invocation that raises a provider API error is treated like a
\* retryable one: unless it was invocation max_retries+1, execute goes on to
\* sleep and invoke the operation again, and at invocation max_retries+1 it
\* raises RetryExhaustedError.
C16_ApiErrorRetried ==
    \A i \in 1..Len(op_log) :
        (op_log[i].kind = "raise" /\ op_log[i].exc.class \in ProviderApiErrors)
        => /\ i <= max_retries => (Len(op_log) > i \/ ex_pc \in {"sleep", "call"})
           /\ i = max_retries + 1 => (ex_pc = "raised" /\ ex_out.wrapped)

\* C18: every result process_query returns has exactly one variant populated:
\* success with code, reasoning and synthesis set and no error, or failure
\* with error set and code, reasoning and synthesis absent.
C18_OneVariant ==
    pq_out.kind = "return"
    => \/ /\ pq_out.result.success
          /\ pq_out.result.code # "None"
          /\ pq_out.result.reasoning # "None"
          /\ pq_out.result.synthesis # "None"
          /\ pq_out.result.error = NoError
       \/ /\ ~pq_out.result.success
          /\ pq_out.result.error.type # "None"
          /\ pq_out.result.code = "None"
          /\ pq_out.result.reasoning = "None"
          /\ pq_out.result.synthesis = "None"

C18_Witness ==
    /\ pq_pc = "done"
    /\ pq_out.kind = "return"
    /\ pq_out.result.success
    /\ pq_out.result.code = "code_completion"
    /\ calls["get_reasoning"] = 2

\* C19: process_query called with an empty or whitespace-only query returns a
\* failure of type "ValidationError" at once: execute is not entered, neither
\* stage method is invoked, so neither client's acquire() is called and no
\* rate-limit token is consumed.
C19_BlankQueryRejected ==
    (pq_pc # "idle" /\ BlankText(query))
    => /\ pq_pc = "done"
       /\ pq_out.kind = "return"
       /\ ~pq_out.result.success
       /\ pq_out.result.error.type = "ValidationError"
       /\ calls = NoCalls
       /\ ex_pc = "idle"
       /\ op_log = <<>>
       /\ sleeps = <<>>

C19_Witness ==
    /\ pq_pc = "done"
    /\ query = <<" ">>
    /\ pq_out.result.error.type = "ValidationError"
    /\ calls = NoCalls
    /\ Len(completed) = 1

\* The first burst_limit+1 calls on a fresh limiter are acquire() calls issued
\* at the instant the limiter was built.
BurstIssued ==
    /\ burst_limit >= 1
    /\ Len(lim_log) >= burst_limit + 1
    /\ \A i \in 1..(burst_limit + 1) :
           lim_log[i].op = "acquire" /\ lim_log[i].at = 0

BurstOutcome ==
    /\ \A i \in 1..burst_limit :
           lim_log[i].result = "True" /\ ~lim_log[i].suspended
    /\ lim_log[burst_limit + 1].result \in {"pending", "True"}
    /\ lim_log[burst_limit + 1].result = "True"
       => lim_log[burst_limit + 1].suspended

LastAdmitted ==
    /\ Len(lim_log) >= burst_limit + 1
    /\ lim_log[burst_limit + 1].result = "True"

\* C13: of burst_limit+1 acquire() calls issued on a fresh limiter with no time
\* elapsing, the first burst_limit are admitted without waiting; the last one
\* returns no failure signal and raises nothing, waits, and is eventually
\* admitted.
C13_BurstLastWaitsThenAdmitted ==
    /\ [](BurstIssued => BurstOutcome)
    /\ (BurstIssued ~> LastAdmitted)

AcquireCalls == { i \in 1..Len(lim_log) : lim_log[i].op = "acquire" }

Admitted(i) ==
    /\ lim_log[i].op = "acquire"
    /\ lim_log[i].result = "pending"
    /\ lim_log'[i].result = "True"

\* C14: 0 <= tokens <= burst_limit in every state; tokens and last_update
\* change only in steps of the task holding the lock; the step that admits an
\* acquire() lowers tokens by exactly one, and no other step lowers tokens.
C14_TokensBounded ==
    /\ [](0 <= tokens /\ tokens <= burst_limit * OneToken)
    /\ [][(tokens' # tokens \/ last_update' # last_update)
           => (lock # 0 /\ lock = running)]_vars
    /\ [][\A i \in 1..Len(lim_log) :
              Admitted(i) => tokens' = tokens - OneToken]_vars
    /\ [][tokens' < tokens => \E i \in 1..Len(lim_log) : Admitted(i)]_vars

C14_Witness ==
    /\ \E t \in Tasks : t_pc[t] = "sleeping" /\ lock = t
    /\ waiters # <<>>
    /\ tokens < OneToken
    /\ now > last_update
    /\ \E i \in AcquireCalls : lim_log[i].result = "True"

\* Consecutive acquire() calls are at least 60/rate_per_minute seconds, the
\* time one token takes to come back, apart.
Spaced ==
    \A i, j \in AcquireCalls :
        i < j => (lim_log[j].at - lim_log[i].at) * rate >= OneToken

C15_OneOutboundCall ==
    /\ Len(cl_outbound) <= 1
    /\ (cl_pc = "done" /\ cl_admitted) => Len(cl_outbound) = 1

\* C15 as amended: the client never runs a stage method's body a second time;
\* get_reasoning, and generate_code with streaming off, make one outbound call
\* once past the rate limiter and never two; generate_code with streaming on
\* makes one streaming call and, exactly when that call failed, one more
\* non-streaming call.
C15_OutboundCalls ==
    /\ attempt_number <= 1
    /\ (cl_stage = "get_reasoning" \/ ~stream_response)
       => /\ Len(cl_outbound) <= 1
          /\ (cl_pc = "done" /\ cl_admitted) => Len(cl_outbound) = 1
    /\ (cl_stage = "generate_code" /\ stream_response)
       => /\ Len(cl_outbound) <= 2
          /\ Len(cl_outbound) >= 1 => cl_outbound[1].mode = "stream"
          /\ Len(cl_outbound) = 2
             => /\ cl_outbound[1].outcome # "ok"
                /\ cl_outbound[2].mode = "regular"
          /\ (cl_pc = "done" /\ cl_admitted)
             => (Len(cl_outbound) = 2 <=> cl_outbound[1].outcome # "ok")

C15_Witness ==
    /\ cl_pc = "done"
    /\ cl_stage = "generate_code"
    /\ stream_response
    /\ Len(cl_outbound) = 2
    /\ cl_outbound[1].outcome = "ConnectionError"
    /\ cl_outbound[2].outcome = "ok"
    /\ cl_out.kind = "return"

\* C21: no RateLimiter with burst_limit = 0 is ever built, so no acquire()
\* call is ever left waiting on a limiter whose bucket can never hold a token.
C21_ZeroBurstRejected ==
    ~(\E i \in AcquireCalls :
          /\ burst_limit = 0
          /\ lim_log[i].suspended
          /\ lim_log[i].result = "pending")

\* The raw text holds no required field anywhere: no code_completion element
\* for the synthesis normalizer, neither a technical_requirements nor an
\* implementation_strategy element for the reasoning normalizer.
NoRequiredField ==
    IF nz_kind = "claude"
    THEN ~Contains(xml_content, OpenTag("code_completion"))
    ELSE /\ ~Contains(xml_content, OpenTag("technical_requirements"))
         /\ ~Contains(xml_content, OpenTag("implementation_strategy"))

FixedFallback ==
    IF nz_kind = "claude" THEN ClaudeProcessFallback ELSE {GeminiProcessFallback}

\* C22: for a raw text without any required field, validate_and_process (with
\* recovery allowed, as by default) does not raise and returns the fixed
\* fallback result.
C22_FallbackNotRaise ==
    (nz_out # NzNone /\ allow_recovery /\ NoRequiredField)
    => (nz_out.kind = "return" /\ nz_out.result \in FixedFallback)

\* C23: every result GeminiXMLProcessor.validate_and_process returns with
\* allow_recovery = True has technical_requirements or implementation_strategy
\* non-empty.
C23_RequiredSectionPresent ==
    (nz_kind = "gemini" /\ allow_recovery /\ nz_out.kind = "return")
    => \/ nz_out.result.technical_requirements # <<>>
       \/ nz_out.result.implementation_strategy # <<>>

\* C24: every acquire() call made on the reasoning-side RateLimiter eventually
\* returns, with the lock released, also when it found less than one token;
\* every call made on the limiter, later ones included, gets the lock and
\* ends.
C24_AcquireReturns ==
    (lim_kind = "gemini")
    => \A i \in 1..MaxCalls :
           (Len(lim_log) >= i)
           ~> /\ Len(lim_log) >= i
              /\ lim_log[i].result # "pending"
              /\ (lock = 0 \/ lock = running)

\* C25: a stage method makes no outbound call before its own acquire() has
\* returned True, the step in which acquire() succeeds comes before the
\* invocation's first outbound call, and of the invocations that have ended
\* (the attempts RetryHandler made) exactly those that were admitted, each
\* one token, reached the remote call.
C25_TokenBeforeCall ==
    /\ [](Len(cl_outbound) >= 1 => cl_admitted)
    /\ [](cl_pc \in {"stream", "call"} => cl_admitted)
    /\ [][(~cl_admitted /\ cl_admitted')
          => (cl_outbound = <<>> /\ cl_outbound' = <<>>)]_vars
    /\ [](\A i \in 1..Len(cl_done) :
              cl_done[i].admitted <=> cl_done[i].outbound >= 1)
    /\ [](Cardinality({i \in 1..Len(cl_done) : cl_done[i].admitted})
          = Cardinality({i \in 1..Len(cl_done) : cl_done[i].outbound >= 1}))

C25_Witness ==
    /\ Len(cl_done) = 2
    /\ cl_done[1].stage = "get_reasoning" /\ cl_done[2].stage = "get_reasoning"
    /\ cl_done[1].kind = "raise" /\ cl_done[2].kind = "return"
    /\ cl_done[1].admitted /\ cl_done[2].admitted
    /\ cl_done[1].outbound = 1 /\ cl_done[2].outbound = 1

DestroyFailed ==
    \E i \in 1..Len(remote) : remote[i].op = "destroy" /\ ~remote[i].ok

InstallCalls == { i \in 1..Len(remote) : remote[i].op = "install" }

\* C27: the install calls of an acquisition come after a successful create,
\* one per package in list order; after a failed install no further package
\* is installed and no code is run, and once the run has ended quick_execute
\* has raised SandboxError out of the acquisition with execute_code never
\* called.
C27_InstallInOrder ==
    /\ \A i \in InstallCalls :
           /\ i >= 2
           /\ remote[1] = RemoteCall("create", 0, TRUE)
           /\ ~dependencies.isNone
           /\ i - 1 <= Len(dependencies.list)
           /\ remote[i].arg = dependencies.list[i - 1]
           /\ \A j \in 2..(i - 1) : remote[j].op = "install" /\ remote[j].ok
    /\ \A i \in InstallCalls : ~remote[i].ok =>
           /\ i = Len(remote)
           /\ sb_pc = "done"
           /\ qe_out = EcRaise("et.SandboxError")
           /\ ec_out = EcNone
    /\ \A i \in 1..Len(remote) : remote[i].op = "run_python" =>
           /\ ~dependencies.isNone => i = Len(dependencies.list) + 2
           /\ \A j \in InstallCalls : remote[j].ok

C27_Witness ==
    /\ sb_pc = "done"
    /\ Len(dependencies.list) = 2
    /\ remote = <<RemoteCall("create", 0, TRUE), RemoteCall("install", 1, TRUE),
                  RemoteCall("install", 2, FALSE)>>
    /\ qe_out = EcRaise("et.SandboxError")

\* The acquire() calls admitted at an instant of the interval [a, b].
AdmittedIn(a, b) ==
    { i \in AcquireCalls : /\ lim_log[i].result = "True"
                           /\ a <= lim_log[i].value
                           /\ lim_log[i].value <= b }

\* C28: whatever the calls and their interleaving, the acquire() calls
\* admitted within any interval of length T are at most
\* burst_limit + T * rate_per_minute / 60.
C28_AdmissionsBounded ==
    \A a \in 0..MaxTime : \A b \in a..MaxTime :
        Cardinality(AdmittedIn(a, b)) * OneToken
            <= burst_limit * OneToken + (b - a) * rate

C28_Witness ==
    /\ lim_kind = "claude"
    /\ burst_limit = 1
    /\ rate = 1
    /\ Len(lim_log) = 3
    /\ \A i \in 1..3 : /\ lim_log[i].op = "acquire"
                        /\ lim_log[i].at = 0
                        /\ lim_log[i].result = "True"
                        /\ lim_log[i].value = 2 * (i - 1)
    /\ lim_log[2].suspended /\ lim_log[3].suspended

\* C29: execute awaits asyncio.sleep once before every invocation of the
\* operation after the first and never before the first; the delay before
\* the jitter of the sleep before the n-th retry is
\* min(base_delay * exponential_base^(n-1), max_delay), so it never exceeds
\* max_delay and never decreases from one retry to the next; and the delay
\* slept is never negative.
C29_BackoffDelays ==
    /\ ex_pc = "call" => Len(sleeps) = Len(op_log)
    /\ ex_pc # "call" /\ Len(op_log) > 0 => Len(sleeps) = Len(op_log) - 1
    /\ Len(op_log) = 0 /\ ex_pc # "call" => sleeps = <<>>
    /\ \A n \in 1..Len(sleeps) :
          /\ sleeps[n].attempt = n
          /\ sleeps[n].delay
                = Min(base_delay * Pow(exponential_base, n - 1), max_delay)
          /\ sleeps[n].delay <= max_delay
          /\ n > 1 => sleeps[n - 1].delay <= sleeps[n].delay
          /\ sleeps[n].slept >= 0

C29_Witness ==
    /\ base_delay = 2 /\ exponential_base = 3 /\ max_delay = 3
    /\ jitter_factor = JitterDen
    /\ Len(op_log) = 3
    /\ Len(sleeps) = 2
    /\ sleeps[1].delay = 2 /\ sleeps[1].slept = 0
    /\ sleeps[2].delay = 3 /\ sleeps[2].slept = 2 * JitterDen * 3

\* C30: after every _update_history call the history holds at most
\* max_history_size entries, for every max_history_size the configuration
\* accepts; with max_history_size = 0 the history is empty after every update.
C30_HistoryWithinLimit ==
    Len(appended) > 0 => Len(history) <= max_history_size
====
